---------------------------- MODULE Spec2Model ----------------------------
(***************************************************************************)
(* Logic simulator front end: the names table (names.py), the scanner      *)
(* (scanner.py), the recursive-descent parser with error recovery          *)
(* (parse.py), the Gui's handlers (gui.py), the entry point (logsim.py).   *)
(*                                                                         *)
(* Strings of the program are sequences of one-character strings, so that  *)
(* the lexical tests of the code (isalpha, isupper, isdigit, int) are      *)
(* computed and not assumed.  Python's None is the integer NoneV for ids   *)
(* and the string "None" for symbol types.                                 *)
(*                                                                         *)
(* Spec     : one run of Parser.parse_network.  Every get_symbol call      *)
(*            of the parser draws the next lexeme of the file; the         *)
(*            build calls (make_device, make_connection, make_monitor,     *)
(*            check_network) belong to collaborators and answer with any   *)
(*            of their return codes.                                       *)
(* SpecScan : Scanner.get_symbol called repeatedly on a file of            *)
(*            characters.                                                  *)
(* SpecConnect : the parser from the CONNECT section on.                   *)
(* SpecLive : Spec on shorter files, followed through any number of        *)
(*            errors, with the fairness of sequential code.                *)
(* SpecNames, SpecCodes : calls on a Names object.                         *)
(* SpecGui  : the handlers of the Gui (gui.py).                            *)
(* SpecMain : logsim.main (logsim.py) on a command line.                   *)
(***************************************************************************)
EXTENDS Integers, Sequences, FiniteSets, TLC

\* ------------------------------------------------------------- bounds
\* Parser runs: the file holds at most MaxToks tokens before its EOF, and a
\* run is followed until it has counted MaxErrs errors (the error that ends
\* the process is always followed).
MaxToks == 11
MaxErrs == 1
\* Scanner runs: the file holds at most MaxChars characters.
MaxChars == 5

\* --------------------------------------------------------- characters
NoneV == -1

UpperChars ==
  {"A","B","C","D","E","F","G","H","I","J","K","L","M",
   "N","O","P","Q","R","S","T","U","V","W","X","Y","Z"}
LowerChars ==
  {"a","b","c","d","e","f","g","h","i","j","k","l","m",
   "n","o","p","q","r","s","t","u","v","w","x","y","z"}
DigitChars == <<"0","1","2","3","4","5","6","7","8","9">>
DigitSet == {DigitChars[i] : i \in 1..10}
SpaceChars == {" ", "\n", "\t"}

\* str.isalpha(), str.isdigit(), str.isalnum(), str.isspace() on one character;
\* the empty string '' (the scanner's character at end of file) satisfies none.
ChIsAlpha(c) == c \in UpperChars \cup LowerChars
ChIsDigit(c) == c \in DigitSet
ChIsAlnum(c) == ChIsAlpha(c) \/ ChIsDigit(c)
ChIsSpace(c) == c \in SpaceChars

\* str.isupper(): no lowercase letter and at least one uppercase letter.
StrIsUpper(s) ==
  /\ \A i \in 1..Len(s) : s[i] \notin LowerChars
  /\ \E i \in 1..Len(s) : s[i] \in UpperChars
\* str.isalpha() on a whole string.
StrIsAlpha(s) == Len(s) > 0 /\ \A i \in 1..Len(s) : ChIsAlpha(s[i])

DigitVal(c) == CHOOSE d \in 0..9 : DigitChars[d + 1] = c
\* int(numstr, base=10)
RECURSIVE IntOf(_)
IntOf(s) ==
  IF Len(s) = 0 THEN 0
  ELSE 10 * IntOf(SubSeq(s, 1, Len(s) - 1)) + DigitVal(s[Len(s)])

\* ------------------------------------------------------------- names.py
\* Names.__init__: the names list starts empty.
NamesInit == <<>>

\* list.index(x): the first position holding x, 0-based.
IndexOf(tbl, s) == (CHOOSE i \in 1..Len(tbl) : tbl[i] = s /\ \A j \in 1..(i-1) : tbl[j] # s) - 1
InTable(tbl, s) == \E i \in 1..Len(tbl) : tbl[i] = s

\* A lookup that puts a new name in front of the table.
Lookup1Prepends(tbl, s) ==
  IF \E i \in 1..Len(tbl) : tbl[i] = s
  THEN [tbl |-> tbl,
        ids |-> <<(CHOOSE i \in 1..Len(tbl) : tbl[i] = s) - 1>>]
  ELSE IF Len(s) > 0
       THEN [tbl |-> <<s>> \o tbl, ids |-> <<0>>]
       ELSE [tbl |-> tbl, ids |-> <<>>]

\* A lookup that takes the empty string for a name.
Lookup1AddsEmpty(tbl, s) ==
  IF \E i \in 1..Len(tbl) : tbl[i] = s
  THEN [tbl |-> tbl,
        ids |-> <<(CHOOSE i \in 1..Len(tbl) : tbl[i] = s) - 1>>]
  ELSE [tbl |-> Append(tbl, s), ids |-> <<Len(tbl)>>]

\* A lookup that appends without searching the table.
Lookup1AlwaysAppends(tbl, s) == [tbl |-> Append(tbl, s), ids |-> <<Len(tbl)>>]

\* Names.lookup on a one-element list [s]: the table afterwards and the
\* id list returned (empty for an empty string that is not in the table).
Lookup1(tbl, s) ==
  IF InTable(tbl, s)
  THEN [tbl |-> tbl, ids |-> <<IndexOf(tbl, s)>>]
  ELSE IF Len(s) > 0
       THEN [tbl |-> Append(tbl, s), ids |-> <<Len(tbl)>>]
       ELSE [tbl |-> tbl, ids |-> <<>>]

\* ----------------------------------------------------------- scanner.py
KW_DEVICE  == <<"D","E","V","I","C","E">>
KW_CONNECT == <<"C","O","N","N","E","C","T">>
KW_MONITOR == <<"M","O","N","I","T","O","R">>
KW_END     == <<"E","N","D">>
\* Scanner.keywords
Keywords == {KW_DEVICE, KW_CONNECT, KW_MONITOR, KW_END}

\* Scanner.symbol_types (an Enum: its members equal no integer and no None)
SymbolTypes ==
  {"COMMA", "DOT", "SEMICOLON", "CONNECTION_OP", "KEYWORD", "NUMBER",
   "OPENPAREN", "CLOSEPAREN", "EOF", "NAME_CAPS", "NAME_CAPSNUM", "NAME_ALNUM"}

\* Symbol(symtype, symid, ...) as the parser reads it.
Sym(t, i) == [symtype |-> t, symid |-> i]
NoSym == Sym("None", NoneV)

\* A name branch that takes every name without a lowercase letter for
\* NAME_CAPS.
NameTypeNoDigitClass(name_str) ==
  IF name_str \in Keywords THEN "KEYWORD"
  ELSE IF StrIsUpper(name_str) THEN "NAME_CAPS" ELSE "NAME_ALNUM"

\* get_symbol, name branch: the symbol type of a name string.
NameType(name_str) ==
  IF name_str \in Keywords THEN "KEYWORD"
  ELSE IF StrIsUpper(name_str)
       THEN (IF StrIsAlpha(name_str) THEN "NAME_CAPS" ELSE "NAME_CAPSNUM")
       ELSE "NAME_ALNUM"

\* get_symbol's dispatch on the text lx of the next token (the empty text at
\* end of file): the symbol returned and the names table afterwards.
ScanLexeme(lx, tbl) ==
  IF Len(lx) = 0 THEN [sym |-> Sym("EOF", NoneV), tbl |-> tbl]
  ELSE IF ChIsAlpha(lx[1])
    THEN LET r == Lookup1(tbl, lx)
         IN [sym |-> Sym(NameType(lx), r.ids[1]), tbl |-> r.tbl]
  ELSE IF ChIsDigit(lx[1])
    THEN [sym |-> Sym("NUMBER", IntOf(lx)), tbl |-> tbl]
  ELSE IF lx[1] = "-"
    THEN [sym |-> Sym(IF Len(lx) > 1 /\ lx[2] = ">" THEN "CONNECTION_OP" ELSE "None",
                      NoneV), tbl |-> tbl]
  ELSE IF lx[1] = ";" THEN [sym |-> Sym("SEMICOLON", NoneV), tbl |-> tbl]
  ELSE IF lx[1] = "," THEN [sym |-> Sym("COMMA", NoneV), tbl |-> tbl]
  ELSE IF lx[1] = "." THEN [sym |-> Sym("DOT", NoneV), tbl |-> tbl]
  ELSE IF lx[1] = "(" THEN [sym |-> Sym("OPENPAREN", NoneV), tbl |-> tbl]
  ELSE IF lx[1] = ")" THEN [sym |-> Sym("CLOSEPAREN", NoneV), tbl |-> tbl]
  ELSE [sym |-> Sym("None", NoneV), tbl |-> tbl]


\* -------------------------------------------------------------- parse.py
VARIABLES
  names,      \* Names.names, shared by scanner and parser
  pc,         \* the statement of the parser that runs next
  stack,      \* return addresses of the parser's calls in progress
  cur,        \* Parser._current_sym
  ntoks,      \* tokens the scanner has delivered before EOF
  err_cnt,    \* Parser._err_cnt
  printed,    \* diagnostics written to stdout so far
  last_err,   \* error_type of the display_error call in progress
  last_msg,   \* the message that call printed
  exit_code,  \* NoneV while the process runs, else the status of exit()
  de_stop,    \* stopping_symbols argument of the display_error in progress
  loc,        \* local variables and return values of the parse functions,
              \* and (written) the devices or inputs the statement being
              \* parsed has named so far, one entry for each time
  result,     \* what parse_network returned: "none", "True" or "False"
  gram,       \* position of the consumed token stream in the grammar
  sem_failed, \* some build call or check_network has reported an error
  built,      \* some make_device/make_connection/make_monitor call was made
  build_err,  \* _err_cnt at the latest of those calls (0 before the first)
  check_err   \* _err_cnt when check_network was called (NoneV before)

VARIABLES
  filelines, current_char, current_line_num, current_col_num, sc_pc, sym,
  disk,             \* the circuit file: whether open() succeeds, and its text
  tokens,           \* the symbols get_symbol has returned so far, in order
  name_string_list, \* argument of the latest direct Names.lookup call
  name_id_list      \* what that call returned

VARIABLES
  error_code_count, \* Names.error_code_count
  allocated,        \* every error code unique_error_codes has returned so far
  answer            \* the latest query, get_name_string or unique_error_codes
                    \* call: its argument and what it returned or raised

VARIABLES
  cycles_completed,      \* Gui.cycles_completed
  continue_button,       \* whether the Continue button is enabled
  monitors_checklistbox, \* whether the monitors checklist is enabled
  records,               \* Monitors: the number of samples in the record of
                         \* each signal, NoneV for a signal not monitored
  devices,               \* Devices: "cold" as built and after cold_startup,
                         \* "run" once the network has been executed since
  calls                  \* the latest Gui handler, the spin value it read and
                         \* what it called and printed, in order

VARIABLES
  bound,      \* how far a parser run is followed: the tokens the file holds
              \* at most before its EOF, and the errors counted at most
  main        \* logsim.main: its arguments, the statement that runs next,
              \* its local objects, what it has printed and the exit status

pvars == <<names, pc, stack, cur, ntoks, err_cnt, printed, last_err, last_msg,
           exit_code, de_stop, loc, result, gram, sem_failed, built,
           build_err, check_err>>
cvars == <<error_code_count, allocated, answer>>
gvars == <<cycles_completed, continue_button, monitors_checklistbox, records,
           devices, calls>>
mvars == <<bound, main>>
svars == <<filelines, current_char, current_line_num, current_col_num, sc_pc, sym,
           disk, tokens, name_string_list, name_id_list, cvars, gvars, mvars>>
vars == <<pvars, svars>>

\* Parser.__init__: the keyword lookups of the stopping_symbols dictionary,
\* in evaluation order, on the table the parser is given.
ParserInitNames ==
  LET t1 == Lookup1(NamesInit, KW_END).tbl
      t2 == Lookup1(t1, KW_MONITOR).tbl
      t3 == Lookup1(t2, KW_DEVICE).tbl
  IN  Lookup1(t3, KW_CONNECT).tbl

KwId(kw) == Lookup1(ParserInitNames, kw).ids[1]

\* Parser.stopping_symbols.  A Python list mixing name ids (integers) and
\* symbol types (Enum members): "x in list" can match a symtype only with
\* the types and a symid only with the ids.
StoppingSymbols(key) ==
  CASE key = "DEVICE"  -> [ids |-> {KwId(KW_END), KwId(KW_MONITOR), KwId(KW_DEVICE), KwId(KW_CONNECT)},
                           types |-> {"EOF"}]
    [] key = "CONNECT" -> [ids |-> {KwId(KW_END), KwId(KW_MONITOR)}, types |-> {"EOF"}]
    [] key = "MONITOR" -> [ids |-> {KwId(KW_END)}, types |-> {"EOF"}]
    [] key = "END"     -> [ids |-> {}, types |-> {"EOF"}]
    [] key = "EOF"     -> [ids |-> {}, types |-> {"EOF"}]
    [] key = "BETWEEN" -> [ids |-> {KwId(KW_END), KwId(KW_MONITOR), KwId(KW_DEVICE), KwId(KW_CONNECT)},
                           types |-> {"SEMICOLON", "EOF"}]

\* The error codes display_error is called with.
ParserErrors ==
  {"NO_END", "NO_EOF", "NO_DEVICE", "NOT_VALID_DEVICE_TYPE", "NO_NAME",
   "NO_PARAMETER", "NO_CLOSE_BRACKET", "NO_PUNCTUATION", "NO_CONNECT",
   "NOT_VALID_OUTPUT", "NO_CONNECTION_OP", "NO_DOT", "NOT_VALID_INPUT",
   "NO_MONITOR", "NO_SEMI_COLON", "INPUTS_NOT_CONNECTED"}
DeviceErrors ==
  {"DEVICE_PRESENT", "NO_QUALIFIER", "INVALID_QUALIFIER", "QUALIFIER_PRESENT",
   "BAD_DEVICE"}
NetworkErrors == {"DEVICE_ABSENT", "INPUT_CONNECTED", "INPUT_TO_INPUT", "PORT_ABSENT"}
MonitorErrors == {"DEVICE_ABSENT", "NOT_OUTPUT", "MONITOR_PRESENT"}
NO_ERROR == "NO_ERROR"

Msg(c, t, x) == [cat |-> c, text |-> t, exit |-> x]
NoMsg == Msg("", "", FALSE)

\* A variant of the keyword branches in which a missing MONITOR is reported
\* but recovered from; C2 must tell it from the code.
KeywordBranchMonitorRecoverable(error_type) ==
  IF error_type = "NO_DEVICE" THEN Msg("KeywordError", "expected keyeord DEVICE at start of file", TRUE)
  ELSE IF error_type = "NO_END" THEN Msg("KeywordError", "expected keyword END at end of file", TRUE)
  ELSE IF error_type = "NO_MONITOR" THEN Msg("KeywordError", "expected keyword MONITOR before monitoring signals", FALSE)
  ELSE IF error_type = "NO_CONNECT" THEN Msg("KeywordError", "expected keyword CONNECT before connections", TRUE)
  ELSE NoMsg

\* display_error's if/elif chain, lines 502-513: the keyword errors, each
\* followed by exit(1).
KeywordBranch(error_type) ==
  IF error_type = "NO_DEVICE" THEN Msg("KeywordError", "expected keyeord DEVICE at start of file", TRUE)
  ELSE IF error_type = "NO_END" THEN Msg("KeywordError", "expected keyword END at end of file", TRUE)
  ELSE IF error_type = "NO_MONITOR" THEN Msg("KeywordError", "expected keyword MONITOR before monitoring signals", TRUE)
  ELSE IF error_type = "NO_CONNECT" THEN Msg("KeywordError", "expected keyword CONNECT before connections", TRUE)
  ELSE NoMsg

\* lines 514-535: the syntax errors
SyntaxBranch(error_type) ==
  IF error_type = "NO_EOF" THEN Msg("FileError", "Expected definition file to end here", FALSE)
  ELSE IF error_type = "NOT_VALID_DEVICE_TYPE" THEN Msg("DeviceError", "Not a valid device type", FALSE)
  ELSE IF error_type = "NO_NAME" THEN Msg("DeviceError", "Missing device name", FALSE)
  ELSE IF error_type = "NO_PARAMETER" THEN Msg("DeviceError", "Missing input parameter specified", FALSE)
  ELSE IF error_type = "NO_CLOSE_BRACKET" THEN Msg("DeviceError", "Missing closing parentheses", FALSE)
  ELSE IF error_type = "NO_PUNCTUATION" THEN Msg("FileError", "Missing comma or semi-colon", FALSE)
  ELSE IF error_type = "NOT_VALID_OUTPUT" THEN Msg("ConnectionError", "Not a valid device output", FALSE)
  ELSE IF error_type = "NOT_VALID_INPUT" THEN Msg("ConnectionError", "Not a valid device input", FALSE)
  ELSE IF error_type = "NO_CONNECTION_OP" THEN Msg("ConnectionError", "Missing connection operator ->", FALSE)
  ELSE IF error_type = "NO_DOT" THEN Msg("ConnectionError", "Missing input operator .", FALSE)
  ELSE IF error_type = "NO_SEMI_COLON" THEN Msg("FileError", "Missing semi-colon to separate connections", FALSE)
  ELSE NoMsg

\* A variant of the semantic branches that prints one text for every code;
\* C6 must tell it from the code.
SemanticBranchOneText(error_type) ==
  IF error_type \in DeviceErrors \cup NetworkErrors \cup MonitorErrors \cup {"INPUTS_NOT_CONNECTED"}
  THEN Msg("SemanticError", "Not a valid device", FALSE)
  ELSE NoMsg

\* lines 539-570: the semantic errors of devices, network and monitors
SemanticBranch(error_type) ==
  IF error_type = "DEVICE_PRESENT" THEN Msg("SemanticError", "Device has already been named", FALSE)
  ELSE IF error_type = "NO_QUALIFIER" THEN Msg("SemanticError", "Device needs an inital state", FALSE)
  ELSE IF error_type = "INVALID_QUALIFIER" THEN Msg("SemanticError", "Not a valid qualifier for device", FALSE)
  ELSE IF error_type = "QUALIFIER_PRESENT" THEN Msg("SemanticError", "Device does not take a qualifier", FALSE)
  ELSE IF error_type = "BAD_DEVICE" THEN Msg("SemanticError", "Not a valid device", FALSE)
  ELSE IF error_type = "DEVICE_ABSENT" THEN Msg("SemanticError", "Input or output device has not been named in DEVICES", FALSE)
  ELSE IF error_type = "INPUT_CONNECTED" THEN Msg("SemanticError", "Input is already in a connection", FALSE)
  ELSE IF error_type = "INPUT_TO_INPUT" THEN Msg("SemanticError", "Both ports are inputs", FALSE)
  ELSE IF error_type = "PORT_ABSENT" THEN Msg("SemanticError", "Invalid input/output port used", FALSE)
  ELSE IF error_type = "INPUTS_NOT_CONNECTED" THEN Msg("SemanticError", "Not all inputs are connected", FALSE)
  ELSE IF error_type = "NOT_OUTPUT" THEN Msg("SemanticError", "Not a valid ouput to monitor", FALSE)
  ELSE IF error_type = "MONITOR_PRESENT" THEN Msg("SemanticError", "Signal is monitored more than once", FALSE)
  ELSE NoMsg

\* A variant of the chain without the semantic branches; C5 must tell it
\* from the code.
DisplayBranchNoSemantic(error_type) ==
  IF KeywordBranch(error_type) # NoMsg THEN KeywordBranch(error_type)
  ELSE SyntaxBranch(error_type)

\* The whole chain: the message printed for error_type and whether the
\* branch calls exit(1); no branch, no message.
DisplayBranch(error_type) ==
  IF KeywordBranch(error_type) # NoMsg THEN KeywordBranch(error_type)
  ELSE IF SyntaxBranch(error_type) # NoMsg THEN SyntaxBranch(error_type)
  ELSE SemanticBranch(error_type)

\* A loop test that looks at the symbol's id only, as it would be with no
\* EOF in the stopping symbols.
SkipSymbolIdOnly(s, stopping_symbols) == s.symid \notin stopping_symbols.ids

\* The loop test of display_error's recovery: the current symbol is skipped.
SkipSymbol(s, stopping_symbols) ==
  /\ s.symtype \notin stopping_symbols.types
  /\ s.symid \notin stopping_symbols.ids


\* The grammar of a circuit file as a recogniser over symbols:
\*   network = DEVICE device_def* CONNECT connection* MONITOR output_ref
\*             (',' output_ref)* END EOF
\* GramStep(q, s) is the position after symbol s; "dead" when no derivable
\* stream has the symbols read so far as a prefix, "ACC" after the final EOF.
NameAny == {"NAME_CAPS", "NAME_CAPSNUM", "NAME_ALNUM"}
IsKw(s, kw) == s.symtype = "KEYWORD" /\ s.symid = KwId(kw)
GramStep(q, s) ==
  LET t == s.symtype IN
  CASE q = "start" -> IF IsKw(s, KW_DEVICE) THEN "D0" ELSE "dead"
    [] q = "D0" -> IF t = "NAME_CAPS" THEN "D1"
                   ELSE IF IsKw(s, KW_CONNECT) THEN "C0" ELSE "dead"
    [] q = "D1" -> IF t \in NameAny THEN "D2" ELSE "dead"
    [] q = "D2" -> IF t = "OPENPAREN" THEN "D3"
                   ELSE IF t = "COMMA" THEN "D1"
                   ELSE IF t = "SEMICOLON" THEN "D0" ELSE "dead"
    [] q = "D3" -> IF t = "NUMBER" THEN "D4" ELSE "dead"
    [] q = "D4" -> IF t = "CLOSEPAREN" THEN "D5" ELSE "dead"
    [] q = "D5" -> IF t = "COMMA" THEN "D1"
                   ELSE IF t = "SEMICOLON" THEN "D0" ELSE "dead"
    [] q = "C0" -> IF t \in NameAny THEN "C1"
                   ELSE IF IsKw(s, KW_MONITOR) THEN "M0" ELSE "dead"
    [] q = "C1" -> IF t = "DOT" THEN "C2"
                   ELSE IF t = "CONNECTION_OP" THEN "C4" ELSE "dead"
    [] q = "C2" -> IF t = "NAME_CAPS" THEN "C3" ELSE "dead"
    [] q = "C3" -> IF t = "CONNECTION_OP" THEN "C4" ELSE "dead"
    [] q = "C4" -> IF t \in NameAny THEN "C5" ELSE "dead"
    [] q = "C5" -> IF t = "DOT" THEN "C6" ELSE "dead"
    [] q = "C6" -> IF t \in {"NAME_CAPS", "NAME_CAPSNUM"} THEN "C7" ELSE "dead"
    [] q = "C7" -> IF t = "COMMA" THEN "C4"
                   ELSE IF t = "SEMICOLON" THEN "C0" ELSE "dead"
    [] q = "M0" -> IF t \in NameAny THEN "M1" ELSE "dead"
    [] q = "M1" -> IF t = "DOT" THEN "M2"
                   ELSE IF t = "COMMA" THEN "M0"
                   ELSE IF IsKw(s, KW_END) THEN "E0" ELSE "dead"
    [] q = "M2" -> IF t = "NAME_CAPS" THEN "M3" ELSE "dead"
    [] q = "M3" -> IF t = "COMMA" THEN "M0"
                   ELSE IF IsKw(s, KW_END) THEN "E0" ELSE "dead"
    [] q = "E0" -> IF t = "EOF" THEN "ACC" ELSE "dead"
    [] OTHER -> "dead"

\* The token texts a file of the parser runs is made of: the keywords, an
\* all-capitals name, a capitals-and-digits name, a lowercase name, a number
\* that equals a name id and one that does not, the punctuation, an invalid
\* character.
Lexemes ==
  {KW_DEVICE, KW_CONNECT, KW_MONITOR, KW_END,
   <<"A">>, <<"I","1">>, <<"a">>, <<"1">>, <<"9">>,
   <<",">>, <<".">>, <<";">>, <<"(">>, <<")">>, <<"-",">">>, <<"$">>}
EndOfFile == <<>>

\* What the scanner can deliver next: anything while the file lasts, EOF
\* for ever once EOF was delivered.
NextLexemes ==
  IF cur.symtype = "EOF" \/ ntoks >= bound.toks THEN {EndOfFile}
  ELSE Lexemes \cup {EndOfFile}

\* self._current_sym = self._scanner.get_symbol(), the scanner finding lx
Fetch(lx) ==
  LET r == ScanLexeme(lx, names) IN
  /\ cur' = r.sym
  /\ names' = r.tbl
  /\ ntoks' = IF Len(lx) = 0 THEN ntoks ELSE ntoks + 1
  /\ gram' = IF gram = "ACC" THEN gram ELSE GramStep(gram, r.sym)
NoFetch == UNCHANGED <<names, cur, ntoks, gram>>
NextSym(lx) == ScanLexeme(lx, names).sym

errvars == <<err_cnt, printed, last_err, last_msg, exit_code, de_stop>>
buildvars == <<sem_failed, built, build_err, check_err>>

Goto(l) == pc' = l /\ UNCHANGED stack /\ UNCHANGED errvars
Call(target, ret) == pc' = target /\ stack' = <<ret>> \o stack /\ UNCHANGED errvars
Return == pc' = Head(stack) /\ stack' = Tail(stack) /\ UNCHANGED errvars

\* display_error up to its recovery loop: count, print, exit on the keyword
\* errors; otherwise the loop runs next and the caller resumes at cont.
DisplayError(error_type, stopping_symbols, cont) ==
  LET m == DisplayBranch(error_type) IN
  /\ m.exit \/ err_cnt < bound.errs
  /\ err_cnt' = err_cnt + 1
  /\ last_err' = error_type
  /\ last_msg' = m
  /\ printed' = IF m = NoMsg THEN printed ELSE printed + 1
  /\ IF m.exit
     THEN /\ exit_code' = 1
          /\ pc' = "exited"
          /\ UNCHANGED <<stack, de_stop>>
     ELSE /\ pc' = "display_error_skip"
          /\ de_stop' = stopping_symbols
          /\ stack' = <<cont>> \o stack
          /\ UNCHANGED exit_code

NoStop == [ids |-> {}, types |-> {}]

\* display_error, the recovery loop: one iteration, or the return.
display_error_skip ==
  /\ pc = "display_error_skip"
  /\ IF SkipSymbol(cur, de_stop)
     THEN /\ \E lx \in NextLexemes : Fetch(lx)
          /\ UNCHANGED <<pc, stack>> /\ UNCHANGED errvars
     ELSE /\ NoFetch
          /\ pc' = Head(stack) /\ stack' = Tail(stack)
          /\ last_err' = NO_ERROR /\ last_msg' = NoMsg /\ de_stop' = NoStop
          /\ UNCHANGED <<err_cnt, printed, exit_code>>
  /\ UNCHANGED <<loc, result>> /\ UNCHANGED buildvars /\ UNCHANGED svars

\* dict.update({k: v}) on a dictionary kept as its items in insertion order
DictUpdate(d, k, v) ==
  IF \E i \in 1..Len(d) : d[i].id = k
  THEN [i \in 1..Len(d) |-> IF d[i].id = k THEN [id |-> k, param |-> v] ELSE d[i]]
  ELSE Append(d, [id |-> k, param |-> v])

LocInit ==
  [pn_ret |-> TRUE, dl_ret |-> TRUE, cl_ret |-> TRUE, ml_ret |-> TRUE,
   dd_ret |-> TRUE, dd_kind |-> NoneV, named_devices |-> <<>>,
   dv_ret |-> TRUE, dv_id |-> NoneV, dv_param |-> NoneV,
   cn_ret |-> TRUE, cn_dev |-> NoneV, cn_port |-> NoneV, inputs |-> <<>>,
   po_ret |-> TRUE, po_dev |-> NoneV, po_port |-> NoneV,
   pi_ret |-> TRUE, pi_dev |-> NoneV,
   pending |-> <<>>, network_ok |-> TRUE, written |-> <<>>,
   status |-> TRUE, ra |-> NoneV, rb |-> NoneV, rl |-> <<>>]

\* A function's return value [status, a, b] or [status, a, list].
Ret(l, st, a, b, lst) == [l EXCEPT !.status = st, !.ra = a, !.rb = b, !.rl = lst]
ClearRet(l) == Ret(l, TRUE, NoneV, NoneV, <<>>)
Quiet == UNCHANGED result /\ UNCHANGED buildvars /\ UNCHANGED svars

\* --- parse_network, lines 82-84: the DEVICE section is parsed first
parse_network ==
  /\ pc = "parse_network"
  /\ loc' = [loc EXCEPT !.pn_ret = TRUE]
  /\ Call("parse_device_list", "parse_network_devices")
  /\ NoFetch /\ Quiet

\* --- _parse_device_list, lines 123-130: the first symbol must be DEVICE
parse_device_list ==
  /\ pc = "parse_device_list"
  /\ loc' = [loc EXCEPT !.dl_ret = TRUE]
  /\ \E lx \in NextLexemes :
       /\ Fetch(lx)
       /\ IF ~ IsKw(NextSym(lx), KW_DEVICE)
          THEN DisplayError("NO_DEVICE", StoppingSymbols("DEVICE"),
                            "parse_device_list_second")
          ELSE Goto("parse_device_list_second")
  /\ Quiet

\* line 133
parse_device_list_second ==
  /\ pc = "parse_device_list_second"
  /\ \E lx \in NextLexemes : Fetch(lx)
  /\ Goto("parse_device_list_loop")
  /\ UNCHANGED loc /\ Quiet

\* lines 135-136: the loop test and the call of _parse_device_def
parse_device_list_loop ==
  /\ pc = "parse_device_list_loop"
  /\ IF cur.symtype \notin {"KEYWORD", "EOF"}
     THEN Call("parse_device_def", "parse_device_list_status")
     ELSE Goto("parse_device_list_end")
  /\ NoFetch /\ UNCHANGED loc /\ Quiet

\* lines 137-138: the definition's status decides whether devices are made
parse_device_list_status ==
  /\ pc = "parse_device_list_status"
  /\ LET ret == loc.status /\ loc.dl_ret IN
     /\ loc' = ClearRet([loc EXCEPT !.dl_ret = ret, !.written = <<>>,
                           !.pending = IF ret /\ err_cnt = 0
                                        THEN [i \in 1..Len(loc.rl) |->
                                                <<loc.rl[i].id, loc.ra, loc.rl[i].param>>]
                                        ELSE <<>>])
     /\ IF ret /\ err_cnt = 0
        THEN Goto("parse_device_list_make")
        ELSE Goto("parse_device_list_advance")
  /\ NoFetch /\ Quiet

\* lines 139-147: one iteration of the loop over devices.items()
parse_device_list_make ==
  /\ pc = "parse_device_list_make"
  /\ IF loc.pending = <<>>
     THEN /\ Goto("parse_device_list_advance")
          /\ UNCHANGED loc /\ UNCHANGED buildvars
     ELSE \E error_type \in DeviceErrors \cup {NO_ERROR} :
            /\ built' = TRUE
            /\ build_err' = err_cnt
            /\ UNCHANGED check_err
            /\ IF error_type # NO_ERROR
               THEN /\ DisplayError(error_type, StoppingSymbols("BETWEEN"),
                                    "parse_device_list_make")
                    /\ loc' = [loc EXCEPT !.pending = Tail(loc.pending), !.dl_ret = FALSE]
                    /\ sem_failed' = TRUE
               ELSE /\ Goto("parse_device_list_make")
                    /\ loc' = [loc EXCEPT !.pending = Tail(loc.pending)]
                    /\ UNCHANGED sem_failed
  /\ NoFetch /\ UNCHANGED result /\ UNCHANGED svars

\* line 149: the symbol after the definition
parse_device_list_advance ==
  /\ pc = "parse_device_list_advance"
  /\ \E lx \in NextLexemes : Fetch(lx)
  /\ Goto("parse_device_list_loop")
  /\ UNCHANGED loc /\ Quiet

\* lines 151-153
parse_device_list_end ==
  /\ pc = "parse_device_list_end"
  /\ loc' = Ret([loc EXCEPT !.dl_ret = TRUE],
                IF cur.symtype = "EOF" THEN FALSE ELSE loc.dl_ret, NoneV, NoneV, <<>>)
  /\ Return
  /\ NoFetch /\ Quiet

\* --- _parse_device_def, lines 165-166
parse_device_def ==
  /\ pc = "parse_device_def"
  /\ loc' = [loc EXCEPT !.dd_ret = TRUE]
  /\ Call("parse_device_type", "parse_device_def_first")
  /\ NoFetch /\ Quiet

\* A variant of the device type test that takes any name; C1 must tell it
\* from the code.
IsDeviceTypeAnyName(s) == s.symtype \in NameAny

\* line 202: a device type is an all-capitals name
IsDeviceType(s) == s.symtype = "NAME_CAPS"

\* --- _parse_device_type, lines 201-209
parse_device_type ==
  /\ pc = "parse_device_type"
  /\ IF ~ IsDeviceType(cur)
     THEN /\ DisplayError("NOT_VALID_DEVICE_TYPE", StoppingSymbols("BETWEEN"),
                          "parse_device_type_fail")
          /\ UNCHANGED loc
     ELSE /\ loc' = Ret(loc, TRUE, cur.symid, NoneV, <<>>)
          /\ Return
  /\ NoFetch /\ Quiet

\* line 207
parse_device_type_fail ==
  /\ pc = "parse_device_type_fail"
  /\ loc' = Ret(loc, FALSE, NoneV, NoneV, <<>>)
  /\ Return
  /\ NoFetch /\ Quiet

\* lines 166-172: the type's status, then the first device
parse_device_def_first ==
  /\ pc = "parse_device_def_first"
  /\ loc' = ClearRet([loc EXCEPT !.dd_ret = loc.dd_ret /\ loc.status,
                        !.dd_kind = loc.ra, !.named_devices = <<>>,
                        !.written = <<>>])
  /\ Call("parse_device", "parse_device_def_added")
  /\ NoFetch /\ Quiet

\* lines 173-175 and 180-182: a device parsed, kept when its status is True
parse_device_def_added ==
  /\ pc = "parse_device_def_added"
  /\ loc' = ClearRet([loc EXCEPT
                !.named_devices = IF loc.status
                                  THEN DictUpdate(loc.named_devices, loc.ra, loc.rb)
                                  ELSE loc.named_devices,
                !.written = IF loc.status
                            THEN Append(loc.written, <<loc.ra, loc.rb>>)
                            ELSE loc.written,
                !.dd_ret = loc.status /\ loc.dd_ret])
  /\ Goto("parse_device_def_loop")
  /\ NoFetch /\ Quiet

\* lines 178-179: further devices while the current symbol is a comma
parse_device_def_loop ==
  /\ pc = "parse_device_def_loop"
  /\ IF cur.symtype = "COMMA"
     THEN Call("parse_device", "parse_device_def_added")
     ELSE Goto("parse_device_def_punct")
  /\ NoFetch /\ UNCHANGED loc /\ Quiet

\* lines 184-191: the definition must end with a semicolon
parse_device_def_punct ==
  /\ pc = "parse_device_def_punct"
  /\ IF cur.symtype \notin {"COMMA", "SEMICOLON"}
     THEN /\ DisplayError("NO_PUNCTUATION", StoppingSymbols("BETWEEN"),
                          "parse_device_def_fail")
          /\ UNCHANGED loc
     ELSE /\ loc' = Ret([loc EXCEPT !.dd_ret = TRUE, !.dd_kind = NoneV,
                                    !.named_devices = <<>>],
                        loc.dd_ret, loc.dd_kind, NoneV, loc.named_devices)
          /\ Return
  /\ NoFetch /\ Quiet

\* line 188
parse_device_def_fail ==
  /\ pc = "parse_device_def_fail"
  /\ loc' = Ret([loc EXCEPT !.dd_ret = TRUE, !.dd_kind = NoneV, !.named_devices = <<>>],
                FALSE, NoneV, NoneV, <<>>)
  /\ Return
  /\ NoFetch /\ Quiet

\* --- _parse_device, lines 224-226
parse_device ==
  /\ pc = "parse_device"
  /\ loc' = [loc EXCEPT !.dv_ret = TRUE]
  /\ Call("parse_device_name_get", "parse_device_named")
  /\ NoFetch /\ Quiet

\* lines 226-233 and 254: the name's status, the symbol after the name
parse_device_named ==
  /\ pc = "parse_device_named"
  /\ \E lx \in NextLexemes :
       /\ Fetch(lx)
       /\ IF NextSym(lx).symtype = "OPENPAREN"
          THEN /\ loc' = ClearRet([loc EXCEPT !.dv_ret = loc.dv_ret /\ loc.status,
                                     !.dv_id = loc.ra, !.dv_param = NoneV])
               /\ Goto("parse_device_param")
          ELSE /\ loc' = Ret([loc EXCEPT !.dv_ret = TRUE, !.dv_id = NoneV],
                             loc.dv_ret /\ loc.status, loc.ra, NoneV, <<>>)
               /\ Return
  /\ Quiet

\* lines 236-243: the parameter
parse_device_param ==
  /\ pc = "parse_device_param"
  /\ \E lx \in NextLexemes :
       /\ Fetch(lx)
       /\ IF NextSym(lx).symtype # "NUMBER"
          THEN /\ DisplayError("NO_PARAMETER", StoppingSymbols("BETWEEN"),
                               "parse_device_fail")
               /\ UNCHANGED loc
          ELSE /\ loc' = [loc EXCEPT !.dv_param = NextSym(lx).symid]
               /\ Goto("parse_device_close")
  /\ Quiet

\* lines 244-250: the closing parenthesis
parse_device_close ==
  /\ pc = "parse_device_close"
  /\ \E lx \in NextLexemes :
       /\ Fetch(lx)
       /\ IF NextSym(lx).symtype # "CLOSEPAREN"
          THEN DisplayError("NO_CLOSE_BRACKET", StoppingSymbols("BETWEEN"),
                            "parse_device_fail")
          ELSE Goto("parse_device_last")
  /\ UNCHANGED loc /\ Quiet

\* lines 251-254
parse_device_last ==
  /\ pc = "parse_device_last"
  /\ \E lx \in NextLexemes : Fetch(lx)
  /\ loc' = Ret([loc EXCEPT !.dv_ret = TRUE, !.dv_id = NoneV, !.dv_param = NoneV],
                loc.dv_ret, loc.dv_id, loc.dv_param, <<>>)
  /\ Return
  /\ Quiet

\* lines 242 and 250
parse_device_fail ==
  /\ pc = "parse_device_fail"
  /\ loc' = Ret([loc EXCEPT !.dv_ret = TRUE, !.dv_id = NoneV, !.dv_param = NoneV],
                FALSE, NoneV, NoneV, <<>>)
  /\ Return
  /\ NoFetch /\ Quiet

\* --- _parse_device_name, lines 269-270 (getsym is True)
parse_device_name_get ==
  /\ pc = "parse_device_name_get"
  /\ \E lx \in NextLexemes : Fetch(lx)
  /\ Goto("parse_device_name")
  /\ UNCHANGED loc /\ Quiet

\* lines 272-277
parse_device_name ==
  /\ pc = "parse_device_name"
  /\ IF cur.symtype \notin NameAny
     THEN /\ DisplayError("NO_NAME", StoppingSymbols("BETWEEN"),
                          "parse_device_name_fail")
          /\ UNCHANGED loc
     ELSE /\ loc' = Ret(loc, TRUE, cur.symid, NoneV, <<>>)
          /\ Return
  /\ NoFetch /\ Quiet

\* line 276
parse_device_name_fail ==
  /\ pc = "parse_device_name_fail"
  /\ loc' = Ret(loc, FALSE, NoneV, NoneV, <<>>)
  /\ Return
  /\ NoFetch /\ Quiet


\* --- parse_network, lines 84-85: the CONNECT section follows
parse_network_devices ==
  /\ pc = "parse_network_devices"
  /\ loc' = ClearRet([loc EXCEPT !.pn_ret = loc.pn_ret /\ loc.status])
  /\ Call("parse_connect_list", "parse_network_connects")
  /\ NoFetch /\ Quiet

\* --- _parse_connect_list, lines 286-299: the current symbol must be CONNECT
parse_connect_list ==
  /\ pc = "parse_connect_list"
  /\ loc' = [loc EXCEPT !.cl_ret = TRUE]
  /\ IF ~ IsKw(cur, KW_CONNECT)
     THEN /\ DisplayError("NO_CONNECT", StoppingSymbols("CONNECT"),
                          "parse_connect_list_fail")
          /\ NoFetch
     ELSE /\ \E lx \in NextLexemes : Fetch(lx)
          /\ Goto("parse_connect_list_loop")
  /\ Quiet

\* lines 301-302
parse_connect_list_loop ==
  /\ pc = "parse_connect_list_loop"
  /\ IF cur.symtype \notin {"KEYWORD", "EOF"}
     THEN Call("parse_connection", "parse_connect_list_status")
     ELSE Goto("parse_connect_list_end")
  /\ NoFetch /\ UNCHANGED loc /\ Quiet

\* lines 305-306
parse_connect_list_status ==
  /\ pc = "parse_connect_list_status"
  /\ LET ret == loc.status /\ loc.cl_ret IN
     /\ loc' = ClearRet([loc EXCEPT !.cl_ret = ret, !.written = <<>>,
                           !.pending = IF ret /\ err_cnt = 0
                                        THEN [i \in 1..Len(loc.rl) |->
                                                <<loc.ra, loc.rb, loc.rl[i][1], loc.rl[i][2]>>]
                                        ELSE <<>>])
     /\ IF ret /\ err_cnt = 0
        THEN Goto("parse_connect_list_make")
        ELSE Goto("parse_connect_list_advance")
  /\ NoFetch /\ Quiet

\* lines 307-314: one iteration of the loop over the inputs
parse_connect_list_make ==
  /\ pc = "parse_connect_list_make"
  /\ IF loc.pending = <<>>
     THEN /\ Goto("parse_connect_list_advance")
          /\ UNCHANGED loc /\ UNCHANGED buildvars
     ELSE \E error_type \in NetworkErrors \cup {NO_ERROR} :
            /\ built' = TRUE
            /\ build_err' = err_cnt
            /\ UNCHANGED check_err
            /\ IF error_type # NO_ERROR
               THEN /\ DisplayError(error_type, StoppingSymbols("BETWEEN"),
                                    "parse_connect_list_make")
                    /\ loc' = [loc EXCEPT !.pending = Tail(loc.pending), !.cl_ret = FALSE]
                    /\ sem_failed' = TRUE
               ELSE /\ Goto("parse_connect_list_make")
                    /\ loc' = [loc EXCEPT !.pending = Tail(loc.pending)]
                    /\ UNCHANGED sem_failed
  /\ NoFetch /\ UNCHANGED result /\ UNCHANGED svars

\* line 315
parse_connect_list_advance ==
  /\ pc = "parse_connect_list_advance"
  /\ \E lx \in NextLexemes : Fetch(lx)
  /\ Goto("parse_connect_list_loop")
  /\ UNCHANGED loc /\ Quiet

\* lines 318-320
parse_connect_list_end ==
  /\ pc = "parse_connect_list_end"
  /\ loc' = Ret([loc EXCEPT !.cl_ret = TRUE],
                IF cur.symtype = "EOF" THEN FALSE ELSE loc.cl_ret, NoneV, NoneV, <<>>)
  /\ Return
  /\ NoFetch /\ Quiet

\* --- _parse_connection, lines 329-331
\* An inputs list that keeps a pair once only.
InputsAppendNew(inputs, input_device_id, input_port_id) ==
  IF \E i \in 1..Len(inputs) : inputs[i] = <<input_device_id, input_port_id>>
  THEN inputs
  ELSE Append(inputs, <<input_device_id, input_port_id>>)

\* lines 348 and 357: inputs.append((input_device_id, input_port_id))
InputsAppend(inputs, input_device_id, input_port_id) ==
  Append(inputs, <<input_device_id, input_port_id>>)

parse_connection ==
  /\ pc = "parse_connection"
  /\ loc' = [loc EXCEPT !.cn_ret = TRUE]
  /\ Call("parse_output", "parse_connection_output")
  /\ NoFetch /\ Quiet

\* lines 331-344: the output's status, the operator, the first input
parse_connection_output ==
  /\ pc = "parse_connection_output"
  /\ IF cur.symtype # "CONNECTION_OP"
     THEN /\ DisplayError("NO_CONNECTION_OP", StoppingSymbols("BETWEEN"),
                          "parse_connection_fail")
          /\ loc' = ClearRet([loc EXCEPT !.cn_ret = loc.cn_ret /\ loc.status])
     ELSE /\ loc' = ClearRet([loc EXCEPT !.cn_ret = loc.cn_ret /\ loc.status,
                                !.cn_dev = loc.ra, !.cn_port = loc.rb,
                                !.inputs = <<>>, !.written = <<>>])
          /\ Call("parse_input", "parse_connection_input")
  /\ NoFetch /\ Quiet

\* lines 345-352 and 355-358: an input parsed, then the symbol after it
parse_connection_input ==
  /\ pc = "parse_connection_input"
  /\ loc' = ClearRet([loc EXCEPT
                !.inputs = IF loc.status
                           THEN InputsAppend(loc.inputs, loc.ra, loc.rb)
                           ELSE loc.inputs,
                !.written = IF loc.status
                            THEN Append(loc.written, <<loc.ra, loc.rb>>)
                            ELSE loc.written,
                !.cn_ret = loc.status /\ loc.cn_ret])
  /\ \E lx \in NextLexemes : Fetch(lx)
  /\ Goto("parse_connection_loop")
  /\ Quiet

\* lines 353-354
parse_connection_loop ==
  /\ pc = "parse_connection_loop"
  /\ IF cur.symtype = "COMMA"
     THEN Call("parse_input", "parse_connection_input")
     ELSE Goto("parse_connection_semi")
  /\ NoFetch /\ UNCHANGED loc /\ Quiet

\* lines 360-366
parse_connection_semi ==
  /\ pc = "parse_connection_semi"
  /\ IF cur.symtype # "SEMICOLON"
     THEN /\ DisplayError("NO_PUNCTUATION", StoppingSymbols("BETWEEN"),
                          "parse_connection_fail")
          /\ UNCHANGED loc
     ELSE /\ loc' = Ret([loc EXCEPT !.cn_ret = TRUE, !.cn_dev = NoneV,
                                    !.cn_port = NoneV, !.inputs = <<>>],
                        loc.cn_ret, loc.cn_dev, loc.cn_port, loc.inputs)
          /\ Return
  /\ NoFetch /\ Quiet

\* lines 340 and 365
parse_connection_fail ==
  /\ pc = "parse_connection_fail"
  /\ loc' = Ret([loc EXCEPT !.cn_ret = TRUE, !.cn_dev = NoneV, !.cn_port = NoneV,
                            !.inputs = <<>>],
                FALSE, NoneV, NoneV, <<>>)
  /\ Return
  /\ NoFetch /\ Quiet

\* --- _parse_output, lines 375-378: the name is the current symbol
parse_output ==
  /\ pc = "parse_output"
  /\ loc' = [loc EXCEPT !.po_ret = TRUE]
  /\ Call("parse_device_name", "parse_output_named")
  /\ NoFetch /\ Quiet

\* lines 378-390 and 402: the name's status, the symbol after the name
parse_output_named ==
  /\ pc = "parse_output_named"
  /\ \E lx \in NextLexemes :
       /\ Fetch(lx)
       /\ IF NextSym(lx).symtype = "DOT"
          THEN /\ loc' = ClearRet([loc EXCEPT !.po_ret = loc.po_ret /\ loc.status,
                                     !.po_dev = loc.ra, !.po_port = NoneV])
               /\ Goto("parse_output_port")
          ELSE /\ loc' = Ret([loc EXCEPT !.po_ret = TRUE],
                             loc.po_ret /\ loc.status, loc.ra, NoneV, <<>>)
               /\ Return
  /\ Quiet

\* lines 392-400: the output port
parse_output_port ==
  /\ pc = "parse_output_port"
  /\ \E lx \in NextLexemes :
       /\ Fetch(lx)
       /\ IF NextSym(lx).symtype # "NAME_CAPS"
          THEN /\ DisplayError("NOT_VALID_OUTPUT", StoppingSymbols("BETWEEN"),
                               "parse_output_fail")
               /\ UNCHANGED loc
          ELSE /\ loc' = [loc EXCEPT !.po_port = NextSym(lx).symid]
               /\ Goto("parse_output_last")
  /\ Quiet

\* lines 401-402
parse_output_last ==
  /\ pc = "parse_output_last"
  /\ \E lx \in NextLexemes : Fetch(lx)
  /\ loc' = Ret([loc EXCEPT !.po_ret = TRUE, !.po_dev = NoneV, !.po_port = NoneV],
                loc.po_ret, loc.po_dev, loc.po_port, <<>>)
  /\ Return
  /\ Quiet

\* line 399
parse_output_fail ==
  /\ pc = "parse_output_fail"
  /\ loc' = Ret([loc EXCEPT !.po_ret = TRUE, !.po_dev = NoneV, !.po_port = NoneV],
                FALSE, NoneV, NoneV, <<>>)
  /\ Return
  /\ NoFetch /\ Quiet

\* --- _parse_input, lines 411-413
parse_input ==
  /\ pc = "parse_input"
  /\ loc' = [loc EXCEPT !.pi_ret = TRUE]
  /\ Call("parse_device_name_get", "parse_input_named")
  /\ NoFetch /\ Quiet

\* lines 413-425: the name's status, then the dot
parse_input_named ==
  /\ pc = "parse_input_named"
  /\ \E lx \in NextLexemes :
       /\ Fetch(lx)
       /\ IF NextSym(lx).symtype # "DOT"
          THEN /\ DisplayError("NO_DOT", StoppingSymbols("BETWEEN"), "parse_input_fail")
               /\ loc' = ClearRet(loc)
          ELSE /\ loc' = ClearRet([loc EXCEPT !.pi_ret = loc.pi_ret /\ loc.status,
                                     !.pi_dev = loc.ra])
               /\ Goto("parse_input_port")
  /\ Quiet

\* lines 426-434: the input port
parse_input_port ==
  /\ pc = "parse_input_port"
  /\ \E lx \in NextLexemes :
       /\ Fetch(lx)
       /\ IF NextSym(lx).symtype \notin {"NAME_CAPSNUM", "NAME_CAPS"}
          THEN /\ DisplayError("NOT_VALID_INPUT", StoppingSymbols("BETWEEN"),
                               "parse_input_fail")
               /\ UNCHANGED loc
          ELSE /\ loc' = Ret([loc EXCEPT !.pi_ret = TRUE, !.pi_dev = NoneV],
                             loc.pi_ret, loc.pi_dev, NextSym(lx).symid, <<>>)
               /\ Return
  /\ Quiet

\* lines 425 and 432
parse_input_fail ==
  /\ pc = "parse_input_fail"
  /\ loc' = Ret([loc EXCEPT !.pi_ret = TRUE, !.pi_dev = NoneV],
                FALSE, NoneV, NoneV, <<>>)
  /\ Return
  /\ NoFetch /\ Quiet


\* --- parse_network, lines 85-86: the MONITOR section follows
parse_network_connects ==
  /\ pc = "parse_network_connects"
  /\ loc' = ClearRet([loc EXCEPT !.pn_ret = loc.status /\ loc.pn_ret])
  /\ Call("parse_monitor_list", "parse_network_monitors")
  /\ NoFetch /\ Quiet

\* --- _parse_monitor_list, lines 443-459: the current symbol must be MONITOR
parse_monitor_list ==
  /\ pc = "parse_monitor_list"
  /\ loc' = [loc EXCEPT !.ml_ret = TRUE]
  /\ IF ~ IsKw(cur, KW_MONITOR)
     THEN /\ DisplayError("NO_MONITOR", StoppingSymbols("MONITOR"),
                          "parse_monitor_list_fail")
          /\ NoFetch
     ELSE /\ \E lx \in NextLexemes : Fetch(lx)
          /\ Call("parse_output", "parse_monitor_list_status")
  /\ Quiet

\* lines 459-461 and 472-474: the output's status decides whether it is monitored
parse_monitor_list_status ==
  /\ pc = "parse_monitor_list_status"
  /\ LET ret == loc.status /\ loc.ml_ret IN
     /\ loc' = ClearRet([loc EXCEPT !.ml_ret = ret,
                           !.pending = IF ret /\ err_cnt = 0
                                        THEN << <<loc.ra, loc.rb>> >> ELSE <<>>])
     /\ IF ret /\ err_cnt = 0
        THEN Goto("parse_monitor_list_make")
        ELSE Goto("parse_monitor_list_loop")
  /\ NoFetch /\ Quiet

\* lines 463-468 and 475-480: make_monitor and its error
parse_monitor_list_make ==
  /\ pc = "parse_monitor_list_make"
  /\ \E error_type \in MonitorErrors \cup {NO_ERROR} :
       /\ built' = TRUE
       /\ build_err' = err_cnt
       /\ UNCHANGED check_err
       /\ IF error_type # NO_ERROR
          THEN /\ DisplayError(error_type, StoppingSymbols("BETWEEN"),
                               "parse_monitor_list_loop")
               /\ loc' = [loc EXCEPT !.pending = <<>>, !.ml_ret = FALSE]
               /\ sem_failed' = TRUE
          ELSE /\ Goto("parse_monitor_list_loop")
               /\ loc' = [loc EXCEPT !.pending = <<>>]
               /\ UNCHANGED sem_failed
  /\ NoFetch /\ UNCHANGED result /\ UNCHANGED svars

\* lines 470-472: further signals while the current symbol is a comma
parse_monitor_list_loop ==
  /\ pc = "parse_monitor_list_loop"
  /\ IF cur.symtype = "COMMA"
     THEN /\ \E lx \in NextLexemes : Fetch(lx)
          /\ Call("parse_output", "parse_monitor_list_status")
     ELSE /\ NoFetch
          /\ Goto("parse_monitor_list_end")
  /\ UNCHANGED loc /\ Quiet

\* lines 483-485
parse_monitor_list_end ==
  /\ pc = "parse_monitor_list_end"
  /\ loc' = Ret([loc EXCEPT !.ml_ret = TRUE],
                IF cur.symtype = "EOF" THEN FALSE ELSE loc.ml_ret, NoneV, NoneV, <<>>)
  /\ Return
  /\ NoFetch /\ Quiet

\* --- parse_network, lines 86-95: the current symbol must be END
parse_network_monitors ==
  /\ pc = "parse_network_monitors"
  /\ loc' = ClearRet([loc EXCEPT !.pn_ret = loc.status /\ loc.pn_ret])
  /\ IF ~ IsKw(cur, KW_END)
     THEN DisplayError("NO_END", StoppingSymbols("END"), "parse_network_fail")
     ELSE Goto("parse_network_eof")
  /\ NoFetch /\ Quiet

\* lines 96-101: then the end of the file
parse_network_eof ==
  /\ pc = "parse_network_eof"
  /\ \E lx \in NextLexemes :
       /\ Fetch(lx)
       /\ IF NextSym(lx).symtype # "EOF"
          THEN DisplayError("NO_EOF", StoppingSymbols("END"), "parse_network_fail")
          ELSE Goto("parse_network_check")
  /\ UNCHANGED loc /\ Quiet

\* line 101: return False
parse_network_fail ==
  /\ pc = "parse_network_fail"
  /\ result' = "False"
  /\ pc' = "done"
  /\ UNCHANGED <<stack, loc>> /\ UNCHANGED errvars
  /\ NoFetch /\ UNCHANGED buildvars /\ UNCHANGED svars

\* lines 105-107: the final check of the network, whatever was counted before
parse_network_check ==
  /\ pc = "parse_network_check"
  /\ \E network_ok \in BOOLEAN :
       /\ check_err' = err_cnt
       /\ loc' = [loc EXCEPT !.network_ok = network_ok]
       /\ IF ~ network_ok
          THEN /\ DisplayError("INPUTS_NOT_CONNECTED", StoppingSymbols("EOF"),
                               "parse_network_return")
               /\ sem_failed' = TRUE
          ELSE /\ Goto("parse_network_return")
               /\ UNCHANGED sem_failed
  /\ UNCHANGED <<built, build_err, result>>
  /\ NoFetch /\ UNCHANGED svars

\* A variant of the final result that forgets check_network; C7 must tell
\* it from the code.
FinalRetIgnoringNetwork(network_ok, ret) == ret

\* A return value that forgets the errors of the three sections.
FinalRetNetworkOnly(network_ok, ret) == network_ok

\* line 108: ret = network_ok and ret
FinalRet(network_ok, ret) == network_ok /\ ret

\* lines 108-111
parse_network_return ==
  /\ pc = "parse_network_return"
  /\ result' = IF FinalRet(loc.network_ok, loc.pn_ret) THEN "True" ELSE "False"
  /\ pc' = "done"
  /\ UNCHANGED <<stack, loc>> /\ UNCHANGED errvars
  /\ NoFetch /\ UNCHANGED buildvars /\ UNCHANGED svars


\* ------------------------------------------------- parse.py: one parse
NoSymAt == [symtype |-> "None", symid |-> NoneV, linenum |-> 0, colnum |-> 0]

\* Parser.__init__ (lines 39-76) on a scanner that has delivered nothing yet
ParserInit ==
  /\ pc = "parse_network"
  /\ stack = <<>>
  /\ cur = NoSym
  /\ ntoks = 0
  /\ err_cnt = 0
  /\ printed = 0
  /\ last_err = NO_ERROR
  /\ last_msg = NoMsg
  /\ exit_code = NoneV
  /\ de_stop = NoStop
  /\ loc = LocInit
  /\ result = "none"
  /\ gram = "start"
  /\ sem_failed = FALSE
  /\ built = FALSE
  /\ build_err = 0
  /\ check_err = NoneV

\* A file that open() cannot read, and a readable file holding text.
NoFile == [readable |-> FALSE, text |-> <<>>]
FileOf(text) == [readable |-> TRUE, text |-> text]

\* Scanner.__init__ (lines 100-104): the cursor before the first character
ScannerInit ==
  /\ current_char = ""
  /\ current_line_num = 0
  /\ current_col_num = 0
  /\ sym = NoSymAt
  /\ tokens = <<>>
  /\ name_string_list = <<>>
  /\ name_id_list = <<>>

\* No query, get_name_string or unique_error_codes call yet.
NoCall ==
  [op |-> "none", arg_str |-> <<>>, arg_int |-> 0, raised |-> "",
   is_none |-> FALSE, val_int |-> 0, val_str |-> <<>>, val_codes |-> {}]

\* Names.__init__, line 43: no error code declared yet
CodesInit ==
  /\ error_code_count = 0
  /\ allocated = {}
  /\ answer = NoCall

\* The signals the checklist of the Gui offers: the outputs of one D-type.
Signals == {<<"D", "Q">>, <<"D", "QBAR">>}

\* No handler of the Gui has run.
NoCalls ==
  [handler |-> "none", cycles |-> 0, signal |-> <<>>, log |-> <<>>,
   raised |-> ""]

\* No Gui object exists.
\* An object main has not created, and one created in session s; an object
\* remembers the objects it was constructed with (by the session they were
\* created in) and holds the data of the sessions whose file was parsed
\* into it.
NoObj ==
  [born |-> 0, holds |-> {}, names |-> 0, devices |-> 0, network |-> 0,
   monitors |-> 0, scanner |-> 0, edit_restart |-> FALSE]
Obj(s, n, d, nw, mo, sc) ==
  [NoObj EXCEPT !.born = s, !.names = n, !.devices = d, !.network = nw,
                !.monitors = mo, !.scanner = sc]

\* logsim.main before its first statement, called with arg_list.
MainStart(arg_list) ==
  [pc |-> "main", arg_list |-> arg_list, options |-> <<>>, arguments |-> <<>>,
   oi |-> 1, out |-> <<>>, status |-> NoneV, raised |-> "", session |-> 0,
   parsed |-> "none", names |-> NoObj, devices |-> NoObj, network |-> NoObj,
   monitors |-> NoObj, scanner |-> NoObj, parser |-> NoObj, gui |-> NoObj]

\* The runs of Spec: MaxToks tokens, MaxErrs errors; main is not running.
Bounded ==
  /\ bound = [toks |-> MaxToks, errs |-> MaxErrs]
  /\ main = [MainStart(<<>>) EXCEPT !.pc = "idle"]

NoGui ==
  /\ cycles_completed = 0
  /\ continue_button = FALSE
  /\ monitors_checklistbox = FALSE
  /\ records = [s \in Signals |-> NoneV]
  /\ devices = "none"
  /\ calls = NoCalls

Init ==
  /\ names = ParserInitNames
  /\ ParserInit
  /\ ScannerInit
  /\ CodesInit
  /\ NoGui
  /\ Bounded
  /\ filelines = <<>>
  /\ disk = NoFile
  /\ sc_pc = "idle"

Next ==
  \/ parse_network
  \/ parse_device_list
  \/ parse_device_list_second
  \/ parse_device_list_loop
  \/ parse_device_list_status
  \/ parse_device_list_make
  \/ parse_device_list_advance
  \/ parse_device_list_end
  \/ parse_device_def
  \/ parse_device_type
  \/ parse_device_type_fail
  \/ parse_device_def_first
  \/ parse_device_def_added
  \/ parse_device_def_loop
  \/ parse_device_def_punct
  \/ parse_device_def_fail
  \/ parse_device
  \/ parse_device_named
  \/ parse_device_param
  \/ parse_device_close
  \/ parse_device_last
  \/ parse_device_fail
  \/ parse_device_name_get
  \/ parse_device_name
  \/ parse_device_name_fail
  \/ parse_network_devices
  \/ parse_connect_list
  \/ parse_connect_list_loop
  \/ parse_connect_list_status
  \/ parse_connect_list_make
  \/ parse_connect_list_advance
  \/ parse_connect_list_end
  \/ parse_connection
  \/ parse_connection_output
  \/ parse_connection_input
  \/ parse_connection_loop
  \/ parse_connection_semi
  \/ parse_connection_fail
  \/ parse_output
  \/ parse_output_named
  \/ parse_output_port
  \/ parse_output_last
  \/ parse_output_fail
  \/ parse_input
  \/ parse_input_named
  \/ parse_input_port
  \/ parse_input_fail
  \/ parse_network_connects
  \/ parse_monitor_list
  \/ parse_monitor_list_status
  \/ parse_monitor_list_make
  \/ parse_monitor_list_loop
  \/ parse_monitor_list_end
  \/ parse_network_monitors
  \/ parse_network_eof
  \/ parse_network_fail
  \/ parse_network_check
  \/ parse_network_return
  \/ display_error_skip

Spec == Init /\ [][Next]_vars


\* ------------------------------------------- scanner.py: reading a file
\* The characters a file of the scanner runs is made of.
ScanAlphabet == {"#", "\n", " ", "A", "1", ";"}
FileTexts == UNION {[1..n -> ScanAlphabet] : n \in 0..MaxChars}

\* fh.readlines(): the text cut after each newline
RECURSIVE ReadLines(_)
ReadLines(text) ==
  IF Len(text) = 0 THEN <<>>
  ELSE LET k == IF \E i \in 1..Len(text) : text[i] = "\n"
                THEN CHOOSE i \in 1..Len(text) :
                       text[i] = "\n" /\ \A j \in 1..(i-1) : text[j] # "\n"
                ELSE Len(text)
       IN <<SubSeq(text, 1, k)>> \o ReadLines(SubSeq(text, k + 1, Len(text)))

\* The scanner's cursor: _current_char, _current_line_num, _current_col_num
Cursor(ch, line, col) == [ch |-> ch, line |-> line, col |-> col]

\* A _get_next_char without the test for an empty file: it takes the end
\* of an empty file for the end of a line and counts a column.
GetNextCharNoEmptyTest(fl, c) ==
  IF Len(fl) = 0 THEN Cursor("", c.line, c.col + 1)
  ELSE LET current_line == fl[c.line + 1] IN
       IF c.col >= Len(current_line)
       THEN IF c.line >= Len(fl) - 1
            THEN Cursor("", c.line, c.col)
            ELSE Cursor(fl[c.line + 2][1], c.line + 1, 1)
       ELSE Cursor(current_line[c.col + 1], c.line, c.col + 1)

\* Scanner._get_next_char, lines 107-126
GetNextChar(fl, c) ==
  IF Len(fl) = 0 THEN c
  ELSE LET current_line == fl[c.line + 1] IN
       IF c.col >= Len(current_line)
       THEN IF c.line >= Len(fl) - 1
            THEN Cursor("", c.line, c.col)
            ELSE Cursor(fl[c.line + 2][1], c.line + 1, 1)
       ELSE Cursor(current_line[c.col + 1], c.line, c.col + 1)

\* Scanner._skip_to_next_symbol, the loop of lines 131-138
RECURSIVE SkipLoop(_, _, _)
SkipLoop(fl, c, isincomment) ==
  IF ChIsSpace(c.ch) \/ isincomment
  THEN LET c1 == GetNextChar(fl, c) IN
       IF isincomment
       THEN IF c1.ch \in {"\n", ""}
            THEN SkipLoop(fl, GetNextChar(fl, c1), FALSE)
            ELSE SkipLoop(fl, c1, TRUE)
       ELSE SkipLoop(fl, c1, c1.ch = "#")
  ELSE c

\* A skip that moves the column on when the cursor is at end of file.
SkipToNextSymbolPastEof(fl, c) ==
  LET d == SkipLoop(fl, c, c.ch = "#")
  IN IF d.ch = "" THEN Cursor("", d.line, d.col + 1) ELSE d

\* Scanner._skip_to_next_symbol, lines 128-138
SkipToNextSymbol(fl, c) == SkipLoop(fl, c, c.ch = "#")

\* Scanner._get_name, lines 217-225: the name and the cursor after it
RECURSIVE NameLoop(_, _, _)
NameLoop(fl, c, name) ==
  IF ChIsAlnum(c.ch) THEN NameLoop(fl, GetNextChar(fl, c), Append(name, c.ch))
  ELSE [name |-> name, c |-> c]
GetName(fl, c) == NameLoop(fl, GetNextChar(fl, c), <<c.ch>>)

\* Scanner._get_number, lines 236-243: the digits and the cursor after them
RECURSIVE NumberLoop(_, _, _)
NumberLoop(fl, c, numstr) ==
  IF ChIsDigit(c.ch) THEN NumberLoop(fl, GetNextChar(fl, c), Append(numstr, c.ch))
  ELSE [numstr |-> numstr, c |-> c]
GetNumber(fl, c) == NumberLoop(fl, GetNextChar(fl, c), <<c.ch>>)

\* A symbol that records the column before its first character.
SymAtColumnBefore(t, i, c) ==
  [symtype |-> t, symid |-> i, linenum |-> c.line, colnum |-> c.col - 1]

\* Symbol(symtype, symid, linenum, colnum) at the cursor c, lines 153-156
SymAt(t, i, c) == [symtype |-> t, symid |-> i, linenum |-> c.line, colnum |-> c.col]

\* get_symbol, lines 153-208, from the cursor c that the skip has left: the
\* symbol, the cursor afterwards and the names table afterwards.
Dispatch(fl, c, tbl) ==
  IF ChIsAlpha(c.ch)
  THEN LET r == GetName(fl, c)
           l == Lookup1(tbl, r.name)
       IN [sym |-> SymAt(NameType(r.name), l.ids[1], c), c |-> r.c, tbl |-> l.tbl]
  ELSE IF ChIsDigit(c.ch)
  THEN LET r == GetNumber(fl, c)
       IN [sym |-> SymAt("NUMBER", IntOf(r.numstr), c), c |-> r.c, tbl |-> tbl]
  ELSE IF c.ch = "-"
  THEN LET c1 == GetNextChar(fl, c)
       IN [sym |-> SymAt(IF c1.ch = ">" THEN "CONNECTION_OP" ELSE "None", NoneV, c),
           c |-> GetNextChar(fl, c1), tbl |-> tbl]
  ELSE IF c.ch = ";"
  THEN [sym |-> SymAt("SEMICOLON", NoneV, c), c |-> GetNextChar(fl, c), tbl |-> tbl]
  ELSE IF c.ch = ","
  THEN [sym |-> SymAt("COMMA", NoneV, c), c |-> GetNextChar(fl, c), tbl |-> tbl]
  ELSE IF c.ch = "."
  THEN [sym |-> SymAt("DOT", NoneV, c), c |-> GetNextChar(fl, c), tbl |-> tbl]
  ELSE IF c.ch = "("
  THEN [sym |-> SymAt("OPENPAREN", NoneV, c), c |-> GetNextChar(fl, c), tbl |-> tbl]
  ELSE IF c.ch = ")"
  THEN [sym |-> SymAt("CLOSEPAREN", NoneV, c), c |-> GetNextChar(fl, c), tbl |-> tbl]
  ELSE IF c.ch = ""
  THEN [sym |-> SymAt("EOF", NoneV, c), c |-> c, tbl |-> tbl]
  ELSE [sym |-> SymAt("None", NoneV, c), c |-> GetNextChar(fl, c), tbl |-> tbl]

Here == Cursor(current_char, current_line_num, current_col_num)
MoveTo(c) ==
  /\ current_char' = c.ch
  /\ current_line_num' = c.line
  /\ current_col_num' = c.col
ParserIdle ==
  UNCHANGED <<pc, stack, cur, ntoks, err_cnt, printed, last_err, last_msg,
              exit_code, de_stop, loc, result, gram, sem_failed, built,
              build_err, check_err>>

\* Calls of get_symbol that are followed after it has returned EOF.
MaxEofs == 2
EofCount == Cardinality({i \in DOMAIN tokens : tokens[i].symtype = "EOF"})

\* An open() whose failure is not noticed: the scanner goes on with no lines.
OpenFileIgnoringError(d) == [ok |-> TRUE, lines |-> ReadLines(d.text)]

\* Scanner.__init__, lines 74-81: open() and readlines(); an IOError ends
\* the process.
OpenFile(d) ==
  IF d.readable THEN [ok |-> TRUE, lines |-> ReadLines(d.text)]
  ELSE [ok |-> FALSE, lines |-> <<>>]

\* Scanner.__init__, lines 72-105
Scanner_init ==
  /\ sc_pc = "init"
  /\ LET r == OpenFile(disk) IN
     IF r.ok
     THEN /\ filelines' = r.lines
          /\ MoveTo(Cursor("", 0, 0))
          /\ sc_pc' = "get_symbol"
          /\ UNCHANGED exit_code
     ELSE /\ exit_code' = 1
          /\ sc_pc' = "exited"
          /\ UNCHANGED <<filelines, current_char, current_line_num, current_col_num>>
  /\ UNCHANGED <<sym, names, disk, tokens, name_string_list, name_id_list>>
  /\ UNCHANGED <<cvars, gvars, mvars>>
  /\ UNCHANGED <<pc, stack, cur, ntoks, err_cnt, printed, last_err, last_msg,
                 de_stop, loc, result, gram, sem_failed, built, build_err,
                 check_err>>

\* get_symbol, lines 146-151: the first character is read on the first call,
\* then whitespace and comments are skipped.
get_symbol ==
  /\ sc_pc = "get_symbol"
  /\ EofCount < MaxEofs
  /\ LET c0 == IF current_line_num = 0 /\ current_col_num = 0
               THEN GetNextChar(filelines, Here) ELSE Here
     IN MoveTo(SkipToNextSymbol(filelines, c0))
  /\ sc_pc' = "get_symbol_dispatch"
  /\ UNCHANGED <<filelines, sym, names, disk, tokens, name_string_list, name_id_list>>
  /\ UNCHANGED <<cvars, gvars, mvars>>
  /\ ParserIdle

\* get_symbol, lines 153-208: the symbol at the cursor is built and returned.
get_symbol_dispatch ==
  /\ sc_pc = "get_symbol_dispatch"
  /\ LET r == Dispatch(filelines, Here, names) IN
     /\ sym' = r.sym
     /\ tokens' = Append(tokens, r.sym)
     /\ MoveTo(r.c)
     /\ names' = r.tbl
  /\ sc_pc' = "get_symbol"
  /\ UNCHANGED <<filelines, disk, name_string_list, name_id_list>>
  /\ UNCHANGED <<cvars, gvars, mvars>>
  /\ ParserIdle

\* A scanner constructed on the file at disk, get_symbol called again and
\* again.
ScanStart ==
  /\ names = NamesInit
  /\ ParserInit
  /\ ScannerInit
  /\ CodesInit
  /\ NoGui
  /\ Bounded
  /\ filelines = <<>>
  /\ sc_pc = "init"

\* Files of at most MaxChars characters over ScanAlphabet, and a file that
\* cannot be read.
InitScan ==
  /\ ScanStart
  /\ disk \in {FileOf(text) : text \in FileTexts} \cup {NoFile}

NextScan ==
  \/ Scanner_init
  \/ get_symbol
  \/ get_symbol_dispatch

SpecScan == InitScan /\ [][NextScan]_vars


\* ------------------------------------------------------------ properties
Terminated == pc \in {"done", "exited"}
KeywordErrors == {"NO_DEVICE", "NO_CONNECT", "NO_MONITOR", "NO_END"}
SemanticErrors ==
  DeviceErrors \cup NetworkErrors \cup MonitorErrors \cup {"INPUTS_NOT_CONNECTED"}

\* C1: when every build call and check_network succeed, parse_network
\* returns True exactly for the token streams the grammar derives; on every
\* other stream it returns False or the process exits with status 1.
C1_TrueExactlyForGrammar ==
  ~ sem_failed =>
    /\ pc = "done" => /\ result \in {"True", "False"}
                      /\ result = "True" <=> gram = "ACC"
    /\ pc = "exited" => exit_code = 1 /\ gram = "dead" /\ result = "none"

\* A file with a device definition or a connection is accepted.
C1_Witness_Accepted ==
  /\ pc = "done" /\ result = "True" /\ gram = "ACC"
  /\ ~ sem_failed /\ ntoks >= 8

\* The state of a process that display_error has ended on a keyword error.
KeywordExit ==
  /\ pc = "exited"
  /\ exit_code = 1
  /\ last_err \in KeywordErrors
  /\ last_msg.cat = "KeywordError"
  /\ printed = err_cnt

\* C2: a first token other than DEVICE, and any token other than the keyword
\* where CONNECT, MONITOR or END is expected, prints a KeywordError and ends
\* the process with status 1; on an empty file this happens before any build
\* call.
C2_MissingKeywordIsFatal ==
  [][ /\ (pc = "parse_device_list" /\ ~ IsKw(cur', KW_DEVICE)) => KeywordExit'
      /\ (pc = "parse_connect_list" /\ ~ IsKw(cur, KW_CONNECT)) => KeywordExit'
      /\ (pc = "parse_monitor_list" /\ ~ IsKw(cur, KW_MONITOR)) => KeywordExit'
      /\ (pc = "parse_network_monitors" /\ ~ IsKw(cur, KW_END)) => KeywordExit'
      /\ (pc' = "exited" /\ ntoks' = 0) => ~ built'
    ]_vars

\* The empty file: the first symbol is EOF and the process has exited.
C2_Witness_EmptyFile ==
  /\ pc = "exited" /\ exit_code = 1
  /\ last_err = "NO_DEVICE" /\ last_msg.cat = "KeywordError"
  /\ cur.symtype = "EOF" /\ ntoks = 0 /\ ~ built

\* C3: the keyword at which the recovery of a device definition stops is
\* not consumed: the parser never fetches the symbol after a definition
\* (line 149) while the current symbol is a keyword.
C3_StopKeywordNotConsumed ==
  pc = "parse_device_list_advance" => cur.symtype # "KEYWORD"

\* C4: every make_device, make_connection and make_monitor call is made
\* with the error counter at zero.
C4_BuildOnlyWithZeroErrors == build_err = 0

\* C5: the diagnostics printed so far are as many as the errors counted, and
\* every error code of parser, devices, network and monitors has a
\* category-tagged message.
C5_PrintedEqualsErrCnt ==
  /\ printed = err_cnt
  /\ pc = "parse_network" =>
       \A e \in ParserErrors \cup SemanticErrors :
         DisplayBranch(e).cat # "" /\ DisplayBranch(e).text # ""

\* Two diagnostics, the second one fatal.
C5_Witness_TwoErrors == err_cnt = 2 /\ printed = 2 /\ pc = "exited"

\* The diagnostics the tests of the semantic errors expect.
ExpectedSemanticMessage(code) ==
  CASE code = "DEVICE_PRESENT" -> "Device has already been named"
    [] code = "NO_QUALIFIER" -> "Device needs an inital state"
    [] code = "INVALID_QUALIFIER" -> "Not a valid qualifier for device"
    [] code = "QUALIFIER_PRESENT" -> "Device does not take a qualifier"
    [] code = "BAD_DEVICE" -> "Not a valid device"
    [] code = "DEVICE_ABSENT" -> "Input or output device has not been named in DEVICES"
    [] code = "INPUT_CONNECTED" -> "Input is already in a connection"
    [] code = "PORT_ABSENT" -> "Invalid input/output port used"
    [] code = "INPUTS_NOT_CONNECTED" -> "Not all inputs are connected"
    [] code = "MONITOR_PRESENT" -> "Signal is monitored more than once"
    [] OTHER -> ""

C7_TrueOnlyIfNetworkChecked ==
  /\ result = "True" => check_err # NoneV /\ loc.network_ok
  /\ (check_err # NoneV /\ ~ loc.network_ok) =>
       /\ err_cnt = check_err + 1 /\ printed = err_cnt
       /\ pc \in {"display_error_skip", "parse_network_return", "done"}
       /\ pc = "display_error_skip" => last_err = "INPUTS_NOT_CONNECTED"
       /\ pc = "done" => result = "False"

\* Everything up to END and EOF succeeded, check_network failed.
C7_Witness_CheckFailed ==
  /\ pc = "done" /\ result = "False" /\ gram = "ACC"
  /\ check_err = 0 /\ ~ loc.network_ok /\ err_cnt = 1

\* C8: check_network is called only when no error has been counted.
C8_CheckOnlyAfterCleanParse == check_err \in {NoneV, 0}

\* C9: the recovery inside a statement stops only at a semicolon, a keyword
\* or the end of the file.
C9_RecoveryStopsAtSemicolonKeywordEof ==
  (pc = "display_error_skip" /\ de_stop = StoppingSymbols("BETWEEN")
     /\ ~ SkipSymbol(cur, de_stop))
  => cur.symtype \in {"SEMICOLON", "KEYWORD", "EOF"}

\* C10: when the skip of get_symbol is done, the cursor is on a character
\* that is neither whitespace nor the start of a comment (or at the end of
\* the file).
C10_SkipLeavesCursorOutsideComments ==
  sc_pc = "get_symbol_dispatch" => ~ (current_char = "#" \/ ChIsSpace(current_char))


\* C11: once get_symbol has returned an EOF symbol, nothing the scanner does
\* changes its cursor, the file or the names table, and every symbol it
\* returns from then on is that same EOF symbol, line and column included.
C11_EofIsSticky ==
  [][sym.symtype = "EOF" =>
       /\ sym' = sym
       /\ current_char' = current_char
       /\ current_line_num' = current_line_num
       /\ current_col_num' = current_col_num
       /\ filelines' = filelines
       /\ names' = names
       /\ tokens' # tokens => tokens' = Append(tokens, sym)]_vars

\* A file with at least one symbol, on which EOF was returned twice.
C11_Witness_EofTwice ==
  /\ EofCount >= 2
  /\ Len(tokens) >= 3
  /\ tokens[Len(tokens)] = tokens[Len(tokens) - 1]
  /\ tokens[Len(tokens)].linenum + tokens[Len(tokens)].colnum > 1


\* ------------------------------------- scanner.py: files made of words
\* Files that are up to MaxWords pieces of text written one after the
\* other: the keywords, letters, digits, every punctuation character,
\* '-' and '>', a character that starts no symbol, and whitespace and
\* comment delimiters.
MaxWords == 3
ScanWords ==
  {KW_DEVICE, KW_CONNECT, KW_MONITOR, KW_END,
   <<"A">>, <<"a">>, <<"0">>, <<"1">>,
   <<",">>, <<".">>, <<";">>, <<"(">>, <<")">>, <<"-">>, <<">">>,
   <<"$">>, <<"#">>, <<"\n">>, <<" ">>}

RECURSIVE Concat(_)
Concat(ws) == IF Len(ws) = 0 THEN <<>> ELSE Head(ws) \o Concat(Tail(ws))
WordTexts == {Concat(ws) : ws \in UNION {[1..n -> ScanWords] : n \in 0..MaxWords}}

InitScanWords ==
  /\ ScanStart
  /\ disk \in {FileOf(text) : text \in WordTexts} \cup {NoFile}

SpecScanWords == InitScanWords /\ [][NextScan]_vars

\* The character of the file at a symbol's line (0-based) and column
\* (1-based), and whether the symbol lies in the file at all.
InFile(t) ==
  /\ t.linenum + 1 \in 1..Len(filelines)
  /\ t.colnum \in 1..Len(filelines[t.linenum + 1])
CharAt(t) == filelines[t.linenum + 1][t.colnum]

\* The longest stretch of characters of the set S that starts at a symbol's
\* position (a stretch never runs over the newline that ends a line).
RunAt(t, S) ==
  LET line == filelines[t.linenum + 1]
      e == CHOOSE e \in t.colnum..Len(line) :
             /\ \A k \in t.colnum..e : line[k] \in S
             /\ e = Len(line) \/ line[e + 1] \notin S
  IN SubSeq(line, t.colnum, e)

AlnumChars == UpperChars \cup LowerChars \cup DigitSet
NameTypes == {"NAME_CAPS", "NAME_CAPSNUM", "NAME_ALNUM"}

\* The type a name has by its spelling.
SpelledNameType(s) ==
  IF s \in {KW_DEVICE, KW_CONNECT, KW_MONITOR, KW_END} THEN "KEYWORD"
  ELSE IF \A i \in 1..Len(s) : s[i] \in UpperChars THEN "NAME_CAPS"
  ELSE IF /\ \A i \in 1..Len(s) : s[i] \in UpperChars \cup DigitSet
          /\ \E i \in 1..Len(s) : s[i] \in DigitSet THEN "NAME_CAPSNUM"
  ELSE "NAME_ALNUM"

\* C12: every symbol returned for a name (a symbol other than EOF that
\* starts at a letter, and every symbol of type KEYWORD or NAME_*) has the letters and digits
\* from its position as its text in the names table, and has type KEYWORD
\* when that text is DEVICE, CONNECT, MONITOR or END, else NAME_CAPS when it
\* is all uppercase letters, NAME_CAPSNUM when it is uppercase letters and
\* digits with a digit, NAME_ALNUM otherwise.
C12_NameTypeBySpelling ==
  \A i \in DOMAIN tokens :
    LET t == tokens[i] IN
    (\/ t.symtype \in NameTypes \cup {"KEYWORD"}
     \/ t.symtype # "EOF" /\ InFile(t) /\ ChIsAlpha(CharAt(t))) =>
      /\ InFile(t) /\ ChIsAlpha(CharAt(t))
      /\ t.symid \in 0..(Len(names) - 1)
      /\ names[t.symid + 1] = RunAt(t, AlnumChars)
      /\ t.symtype = SpelledNameType(RunAt(t, AlnumChars))

\* One file gave a keyword and a name with a lowercase letter.
C12_Witness_KeywordAndName ==
  /\ \E i \in DOMAIN tokens : tokens[i].symtype = "KEYWORD"
  /\ \E i \in DOMAIN tokens : tokens[i].symtype = "NAME_ALNUM"


PunctuationType(ch) ==
  CASE ch = "," -> "COMMA"
    [] ch = "." -> "DOT"
    [] ch = ";" -> "SEMICOLON"
    [] ch = "(" -> "OPENPAREN"
    [] ch = ")" -> "CLOSEPAREN"
    [] OTHER -> "None"
PunctuationChars == {",", ".", ";", "(", ")"}

\* The symbol t begins with the character at its line and column.
StartsAtItsPosition(t) ==
  /\ InFile(t)
  /\ LET ch == CharAt(t)
         line == filelines[t.linenum + 1]
     IN CASE t.symtype \in NameTypes \cup {"KEYWORD"} ->
               ChIsAlpha(ch) /\ names[t.symid + 1] = RunAt(t, AlnumChars)
          [] t.symtype = "NUMBER" ->
               ChIsDigit(ch) /\ t.symid = IntOf(RunAt(t, DigitSet))
          [] t.symtype = "CONNECTION_OP" ->
               ch = "-" /\ t.colnum < Len(line) /\ line[t.colnum + 1] = ">"
          [] t.symtype \in {"COMMA", "DOT", "SEMICOLON", "OPENPAREN", "CLOSEPAREN"} ->
               t.symtype = PunctuationType(ch)
          [] t.symtype = "None" ->
               ~ ChIsAlnum(ch) /\ ~ ChIsSpace(ch) /\ ch \notin PunctuationChars
          [] OTHER -> FALSE

Before(s, t) ==
  s.linenum < t.linenum \/ (s.linenum = t.linenum /\ s.colnum < t.colnum)

\* C13: every symbol returned before EOF, untyped ones included, carries
\* the line (counted from 0) and the column (counted from 1) of the
\* character it begins with, and the positions of successive symbols
\* advance through the file.
C13_PositionOfFirstCharacter ==
  \A i \in DOMAIN tokens :
    tokens[i].symtype # "EOF" =>
      /\ StartsAtItsPosition(tokens[i])
      /\ \A j \in 1..(i - 1) : Before(tokens[j], tokens[i])

\* An untyped symbol at the start of the second line, after a comment line.
C13_Witness_AfterComment ==
  \E i \in DOMAIN tokens :
    /\ tokens[i].symtype = "None"
    /\ tokens[i].linenum = 1 /\ tokens[i].colnum = 1
    /\ filelines[1][1] = "#" /\ filelines[2][1] = "$"


\* C14: a symbol that begins with '-' is one CONNECTION_OP symbol covering
\* both characters when '>' follows at once; otherwise it is one symbol
\* with no type and no id, and when the character right after the '-'
\* begins a symbol, that symbol is the next one returned.
C14_ArrowAndLoneMinus ==
  \A i \in DOMAIN tokens :
    LET t == tokens[i] IN
    (t.symtype # "EOF" /\ InFile(t) /\ CharAt(t) = "-") =>
      LET line == filelines[t.linenum + 1]
          more == t.colnum < Len(line)
          arrow == more /\ line[t.colnum + 1] = ">"
          next_at_once == /\ i < Len(tokens)
                          /\ tokens[i + 1].symtype # "EOF"
                          /\ tokens[i + 1].linenum = t.linenum
                          /\ tokens[i + 1].colnum = t.colnum + 1
      IN IF arrow
         THEN t.symtype = "CONNECTION_OP" /\ ~ next_at_once
         ELSE /\ t.symtype = "None" /\ t.symid = NoneV
              /\ (/\ i < Len(tokens) /\ more
                  /\ ~ ChIsSpace(line[t.colnum + 1])
                  /\ line[t.colnum + 1] # "#") => next_at_once


\* Positions of the file, as <<line index, column>>, and the ones outside
\* comments: a comment runs from a '#' to the end of its line.
FilePositions ==
  UNION {{<<l, c>> : c \in 1..Len(filelines[l])} : l \in DOMAIN filelines}
OutsideComment(p) == \A k \in 1..p[2] : filelines[p[1]][k] # "#"

\* How often a symbol type was returned, and how often its text occurs in
\* the file outside comments.
TokenCount(ty) == Cardinality({i \in DOMAIN tokens : tokens[i].symtype = ty})
TextCount(ty) ==
  Cardinality({p \in FilePositions :
    /\ OutsideComment(p)
    /\ LET line == filelines[p[1]] IN
       IF ty = "CONNECTION_OP"
       THEN line[p[2]] = "-" /\ p[2] < Len(line) /\ line[p[2] + 1] = ">"
       ELSE line[p[2]] \in PunctuationChars /\ PunctuationType(line[p[2]]) = ty})

\* C15: when EOF has been returned, the numbers of COMMA, DOT, SEMICOLON,
\* OPENPAREN, CLOSEPAREN and CONNECTION_OP symbols returned equal the
\* numbers of ',', '.', ';', '(', ')' and '->' in the file outside comments.
C15_PunctuationCounts ==
  EofCount >= 1 =>
    \A ty \in {"COMMA", "DOT", "SEMICOLON", "OPENPAREN", "CLOSEPAREN", "CONNECTION_OP"} :
      TokenCount(ty) = TextCount(ty)


\* A character that begins no symbol and is neither whitespace nor '#'.
StartsNoSymbol(ch) ==
  /\ ~ ChIsAlnum(ch) /\ ~ ChIsSpace(ch)
  /\ ch \notin PunctuationChars \cup {"-", "#"}

\* The '>' of a '->'.
ArrowHead(p) ==
  /\ filelines[p[1]][p[2]] = ">"
  /\ p[2] > 1 /\ filelines[p[1]][p[2] - 1] = "-"

\* The symbols before EOF returned for the position p.
SymbolsAt(p) ==
  {i \in DOMAIN tokens :
     /\ tokens[i].symtype # "EOF"
     /\ tokens[i].linenum = p[1] - 1 /\ tokens[i].colnum = p[2]}

\* C16: when EOF has been returned, every character outside comments that
\* begins no symbol (and is not the '>' of a '->') has given exactly one
\* symbol, located at that character, with no type and no id.
C16_InvalidCharacterOneSymbol ==
  EofCount >= 1 =>
    \A p \in FilePositions :
      (/\ OutsideComment(p)
       /\ StartsNoSymbol(filelines[p[1]][p[2]])
       /\ ~ ArrowHead(p)) =>
        /\ Cardinality(SymbolsAt(p)) = 1
        /\ \A i \in SymbolsAt(p) : tokens[i].symtype = "None" /\ tokens[i].symid = NoneV


\* C17: on a readable file with no characters the process does not end,
\* and every symbol get_symbol returns, the first one included, is EOF at
\* line 0, column 0.
C17_EmptyFileGivesEof ==
  disk = FileOf(<<>>) =>
    /\ sc_pc # "exited" /\ exit_code = NoneV
    /\ current_line_num = 0 /\ current_col_num = 0 /\ current_char = ""
    /\ \A i \in DOMAIN tokens :
         tokens[i] = [symtype |-> "EOF", symid |-> NoneV, linenum |-> 0, colnum |-> 0]

\* get_symbol has returned twice on the empty file.
C17_Witness_EmptyFileTwice ==
  /\ disk = FileOf(<<>>)
  /\ sc_pc = "get_symbol"
  /\ Len(tokens) >= 2


\* A digit that is not inside a name and is the first of its run of digits.
DigitRunStart(p) ==
  /\ ChIsDigit(filelines[p[1]][p[2]])
  /\ p[2] = 1 \/ ~ ChIsAlnum(filelines[p[1]][p[2] - 1])

\* C18: when EOF has been returned, every run of digits outside comments
\* and outside names has given exactly one symbol: a NUMBER located at the
\* first digit whose id is the decimal value of the whole run up to the
\* first non-digit; and a letter right after the run begins a name symbol.
C18_NumberPerDigitRun ==
  EofCount >= 1 =>
    \A p \in FilePositions :
      (OutsideComment(p) /\ DigitRunStart(p)) =>
        LET line == filelines[p[1]]
            run == RunAt([linenum |-> p[1] - 1, colnum |-> p[2]], DigitSet)
            e == p[2] + Len(run)
        IN /\ Cardinality(SymbolsAt(p)) = 1
           /\ \A i \in SymbolsAt(p) :
                tokens[i].symtype = "NUMBER" /\ tokens[i].symid = IntOf(run)
           /\ \A k \in (p[2] + 1)..(e - 1) : SymbolsAt(<<p[1], k>>) = {}
           /\ (e <= Len(line) /\ ChIsAlpha(line[e])) =>
                \E i \in SymbolsAt(<<p[1], e>>) :
                  tokens[i].symtype \in NameTypes \cup {"KEYWORD"}


\* C19: when the file cannot be opened, the construction of the Scanner
\* ends the process with a nonzero exit status, and get_symbol never
\* returns a symbol.
C19_OpenFailureExits ==
  ~ disk.readable =>
    /\ sc_pc \in {"init", "exited"}
    /\ sc_pc = "exited" => exit_code # NoneV /\ exit_code # 0
    /\ tokens = <<>> /\ sym = NoSymAt /\ filelines = <<>>

\* The process has ended in Scanner.__init__.
C19_Witness_Exited ==
  /\ ~ disk.readable
  /\ sc_pc = "exited"
  /\ exit_code = 1


\* -------------------------------------------------- names.py: lookup
\* Names.lookup(name_string_list), lines 70-91: the strings are looked up
\* one after the other, each in the table the one before has left.
\* An element of a list that is not a string (the integer 5, say).
NotAString == <<"int">>

\* The loop of Names.lookup, lines 79-91: the strings are handled one after
\* the other, and an element that is not a string raises TypeError when
\* the loop comes to it.
RECURSIVE Lookup(_, _)
Lookup(tbl, lst) ==
  IF Len(lst) = 0 THEN [tbl |-> tbl, ids |-> <<>>, raised |-> ""]
  ELSE IF Head(lst) = NotAString
  THEN [tbl |-> tbl, ids |-> <<>>, raised |-> "TypeError"]
  ELSE LET first == Lookup1(tbl, Head(lst))
           rest == Lookup(first.tbl, Tail(lst))
       IN [tbl |-> rest.tbl, ids |-> first.ids \o rest.ids,
           raised |-> rest.raised]

\* Calls of lookup: lists of at most MaxList strings out of NameStrings (the
\* empty string is one of them), on a table of at most MaxNames names.
MaxList == 2
MaxNames == 4
NameStrings == {<<"A">>, <<"a">>, <<"A", "1">>, KW_END, <<>>}
NameLists == UNION {[1..n -> NameStrings] : n \in 0..MaxList}

\* Lists with an element that is not a string, alone, first or last.
BadLists ==
  {<<NotAString>>} \cup
  UNION {{<<NotAString, s>>, <<s, NotAString>>} : s \in NameStrings}

\* A call on the Names object alone: no scanner, parser or Gui is there.
NoScanner ==
  /\ UNCHANGED <<filelines, current_char, current_line_num, current_col_num,
                 sc_pc, sym, disk, tokens>>
  /\ UNCHANGED <<gvars, mvars>>
  /\ ParserIdle

lookup ==
  /\ sc_pc = "no_scanner"
  /\ \E lst \in NameLists \cup BadLists :
       LET r == Lookup(names, lst) IN
       /\ Len(r.tbl) <= MaxNames
       /\ names' = r.tbl
       /\ name_string_list' = lst
       /\ name_id_list' = IF r.raised = "" THEN r.ids ELSE <<>>
       /\ answer' = IF r.raised = "" THEN NoCall
                     ELSE [NoCall EXCEPT !.op = "lookup", !.raised = r.raised]
  /\ UNCHANGED <<error_code_count, allocated>>
  /\ NoScanner

\* A query that counts ids from 1.
QueryFromOne(tbl, s) ==
  IF InTable(tbl, s) THEN [is_none |-> FALSE, id |-> IndexOf(tbl, s) + 1]
  ELSE [is_none |-> TRUE, id |-> 0]

\* Names.query(name_string), lines 56-66, on a string: the id, or None.
Query(tbl, s) ==
  IF InTable(tbl, s) THEN [is_none |-> FALSE, id |-> IndexOf(tbl, s)]
  ELSE [is_none |-> TRUE, id |-> 0]

query ==
  /\ sc_pc = "no_scanner"
  /\ \E s \in NameStrings :
       LET r == Query(names, s) IN
       answer' = [NoCall EXCEPT !.op = "query", !.arg_str = s,
                                !.is_none = r.is_none, !.val_int = r.id]
  /\ name_string_list' = <<>>
  /\ name_id_list' = <<>>
  /\ UNCHANGED <<names, error_code_count, allocated>>
  /\ NoScanner

\* A get_name_string that takes a negative id for a position from the end,
\* as list indexing does.
GetNameStringFromEnd(tbl, name_id) ==
  IF name_id < 0
  THEN IF -name_id <= Len(tbl)
       THEN [raised |-> "", is_none |-> FALSE, str |-> tbl[Len(tbl) + name_id + 1]]
       ELSE [raised |-> "IndexError", is_none |-> FALSE, str |-> <<>>]
  ELSE IF name_id < Len(tbl)
  THEN [raised |-> "", is_none |-> FALSE, str |-> tbl[name_id + 1]]
  ELSE [raised |-> "", is_none |-> TRUE, str |-> <<>>]

\* Names.get_name_string(name_id), lines 95-110, on an integer: the string,
\* None, or the exception raised.
GetNameString(tbl, name_id) ==
  IF name_id < 0
  THEN [raised |-> "IndexError", is_none |-> FALSE, str |-> <<>>]
  ELSE IF name_id < Len(tbl)
  THEN [raised |-> "", is_none |-> FALSE, str |-> tbl[name_id + 1]]
  ELSE [raised |-> "", is_none |-> TRUE, str |-> <<>>]

get_name_string ==
  /\ sc_pc = "no_scanner"
  /\ \E name_id \in (-2)..(MaxNames + 1) :
       LET r == GetNameString(names, name_id) IN
       answer' = [NoCall EXCEPT !.op = "get_name_string", !.arg_int = name_id,
                                !.raised = r.raised, !.is_none = r.is_none,
                                !.val_str = r.str]
  /\ name_string_list' = <<>>
  /\ name_id_list' = <<>>
  /\ UNCHANGED <<names, error_code_count, allocated>>
  /\ NoScanner

\* The counter of error codes is kept within -MaxCodes..MaxCodes.
MaxCodes == 2

\* range(a, b)
Range(a, b) == a..(b - 1)

\* unique_error_codes(num_error_codes): a list of that many fresh codes.
UniqueErrorCodes(count, num_error_codes) ==
  [count |-> count + num_error_codes,
   codes |-> Range(count, count + num_error_codes)]

\* Names.unique_error_codes, called with an integer (negative ones are
\* integers too) or with something that is not an integer (TypeError).
unique_error_codes ==
  /\ sc_pc = "no_scanner"
  /\ \/ \E num_error_codes \in (-1)..2 :
          LET r == UniqueErrorCodes(error_code_count, num_error_codes) IN
          /\ r.count \in (-MaxCodes)..MaxCodes
          /\ error_code_count' = r.count
          /\ allocated' = allocated \cup r.codes
          /\ answer' = [NoCall EXCEPT !.op = "unique_error_codes",
                                      !.arg_int = num_error_codes,
                                      !.val_int = error_code_count,
                                      !.val_codes = r.codes]
     \/ /\ answer' = [NoCall EXCEPT !.op = "unique_error_codes",
                                      !.raised = "TypeError"]
        /\ UNCHANGED <<error_code_count, allocated>>
  /\ name_string_list' = <<>>
  /\ name_id_list' = <<>>
  /\ UNCHANGED names
  /\ NoScanner

\* A new Names object; lookup, query and get_name_string called again and
\* again.
InitNames ==
  /\ names = NamesInit
  /\ ParserInit
  /\ ScannerInit
  /\ CodesInit
  /\ NoGui
  /\ Bounded
  /\ filelines = <<>>
  /\ disk = NoFile
  /\ sc_pc = "no_scanner"

NextNames ==
  \/ lookup
  \/ query
  \/ get_name_string

SpecNames == InitNames /\ [][NextNames]_vars

\* A Names object after one lookup call; unique_error_codes, query and
\* get_name_string called again and again.
InitCodes ==
  /\ \E lst \in NameLists : names = Lookup(NamesInit, lst).tbl
  /\ ParserInit
  /\ ScannerInit
  /\ CodesInit
  /\ NoGui
  /\ Bounded
  /\ filelines = <<>>
  /\ disk = NoFile
  /\ sc_pc = "no_scanner"

NextCodes ==
  \/ unique_error_codes
  \/ query
  \/ get_name_string

SpecCodes == InitCodes /\ [][NextCodes]_vars

NoDuplicates(tbl) ==
  \A i, j \in 1..Len(tbl) : tbl[i] = tbl[j] => i = j

\* C20: after every lookup call no string occurs twice in the names table;
\* and when every string of the call was in the table already, the table is
\* left as it was and the call returns, for each string, the id at which
\* the table holds it.
C20_LookupKeepsNamesUnique ==
  [][/\ NoDuplicates(names')
     /\ (\A k \in 1..Len(name_string_list') : InTable(names, name_string_list'[k])) =>
          /\ names' = names
          /\ Len(name_id_list') = Len(name_string_list')
          /\ \A k \in 1..Len(name_string_list') :
               /\ name_id_list'[k] \in 0..(Len(names) - 1)
               /\ names[name_id_list'[k] + 1] = name_string_list'[k]]_vars

\* The table holds four names, END the first of them, and the latest call
\* looked up END alone: it found END and returned id 0.
C20_Witness_ExistingName ==
  /\ Len(names) = 4
  /\ names[1] = KW_END
  /\ name_string_list = <<KW_END>>
  /\ name_id_list = <<0>>


\* The strings of lst up to position k that are not empty.
NonEmptyUpTo(lst, k) == Cardinality({j \in 1..k : Len(lst[j]) > 0})

\* C21: every call leaves the names the table held in place, so that
\* get_name_string(i) and query(s) still answer s and i for every id i
\* given out before; and the strings a lookup call adds are strings of its
\* list (all of them when the call returns) that are not empty and were
\* not in the table, each once, in the
\* order in which the list first names them, at the ids that follow the
\* table's former length, which are the ids the call returns for them.
C21_AppendOnly ==
  [][LET lst == name_string_list'
         old == Len(names)
         FirstAt(s) == CHOOSE k \in 1..Len(lst) :
                         lst[k] = s /\ \A j \in 1..(k - 1) : lst[j] # s
     IN
     /\ Len(names') >= old
     /\ SubSeq(names', 1, old) = names
     /\ \A i \in 0..(old - 1) :
          /\ GetNameString(names', i) =
               [raised |-> "", is_none |-> FALSE, str |-> names[i + 1]]
          /\ Query(names', names[i + 1]) = [is_none |-> FALSE, id |-> i]
     /\ \A i \in (old + 1)..Len(names') :
          /\ Len(names'[i]) > 0
          /\ ~ InTable(names, names'[i])
          /\ \E k \in 1..Len(lst) : lst[k] = names'[i]
          /\ \A j \in (old + 1)..(i - 1) :
               /\ names'[j] # names'[i]
               /\ FirstAt(names'[j]) < FirstAt(names'[i])
     /\ \A k \in 1..Len(lst) :
          (Len(lst[k]) > 0 /\ answer'.raised = "") =>
            /\ InTable(names', lst[k])
            /\ NonEmptyUpTo(lst, k) <= Len(name_id_list')
            /\ name_id_list'[NonEmptyUpTo(lst, k)] = IndexOf(names', lst[k])]_vars

\* The table has grown to four names and get_name_string(0) still answers
\* the first of them.
C21_Witness_FirstIdKept ==
  /\ Len(names) = 4
  /\ answer.op = "get_name_string"
  /\ answer.arg_int = 0
  /\ answer.raised = "" /\ ~ answer.is_none
  /\ answer.val_str = names[1]


\* C23: a call of query changes nothing in the table; it answers the id of
\* its string when the table holds the string and None when it does not;
\* query(get_name_string(i)) = i for every id i below the table's length,
\* and get_name_string(query(s)) = s whenever query(s) is an id.
C23_QueryIsInverse ==
  [][answer'.op = "query" =>
       LET s == answer'.arg_str IN
       /\ names' = names
       /\ InTable(names, s) =>
            /\ ~ answer'.is_none
            /\ answer'.val_int \in 0..(Len(names) - 1)
            /\ names[answer'.val_int + 1] = s
            /\ GetNameString(names', answer'.val_int) =
                 [raised |-> "", is_none |-> FALSE, str |-> s]
       /\ ~ InTable(names, s) => answer'.is_none
       /\ \A i \in 0..(Len(names) - 1) :
            Query(names', GetNameString(names', i).str) =
              [is_none |-> FALSE, id |-> i]]_vars

\* query has answered id 1 for the second name of the table.
C23_Witness_SecondName ==
  /\ answer.op = "query"
  /\ Len(names) >= 2
  /\ answer.arg_str = names[2]
  /\ ~ answer.is_none
  /\ answer.val_int = 1

\* C24: the table never holds the empty string, and the list a lookup call
\* returns holds one id for every string of its argument that is not
\* empty, in the argument's order, and nothing else.
C24_LookupSkipsEmpty ==
  LET lst == name_string_list IN
  /\ ~ InTable(names, <<>>)
  /\ answer.raised = "" => Len(name_id_list) = NonEmptyUpTo(lst, Len(lst))
  /\ \A k \in 1..Len(lst) :
       (Len(lst[k]) > 0 /\ answer.raised = "") =>
         /\ name_id_list[NonEmptyUpTo(lst, k)] \in 0..(Len(names) - 1)
         /\ names[name_id_list[NonEmptyUpTo(lst, k)] + 1] = lst[k]

\* lookup was called with an empty string followed by a name and returned
\* one id.
C24_Witness_EmptyThenName ==
  /\ Len(name_string_list) = 2
  /\ name_string_list[1] = <<>>
  /\ Len(name_string_list[2]) > 0
  /\ Len(name_id_list) = 1

\* C25: get_name_string(i) answers the string stored at i when
\* 0 <= i < length of the table, None when i is not below the length, and
\* raises IndexError when i is negative; the table stays as it was.
C25_GetNameStringCases ==
  [][answer'.op = "get_name_string" =>
       LET i == answer'.arg_int IN
       /\ names' = names
       /\ (0 <= i /\ i < Len(names)) =>
            /\ answer'.raised = "" /\ ~ answer'.is_none
            /\ answer'.val_str = names[i + 1]
       /\ i >= Len(names) => answer'.raised = "" /\ answer'.is_none
       /\ i < 0 => answer'.raised = "IndexError"]_vars

\* get_name_string(-1) has raised IndexError on a table that holds names.
C25_Witness_NegativeId ==
  /\ answer.op = "get_name_string"
  /\ answer.arg_int = 0 - 1
  /\ Len(names) >= 1
  /\ answer.raised = "IndexError"


\* C22: a call unique_error_codes(n) that is accepted returns the codes
\* c, ..., c+n-1, where c is the counter before the call, leaves the
\* counter at c+n, and returns no code that an earlier call returned.
C22_ErrorCodesUnique ==
  [][(answer'.op = "unique_error_codes" /\ answer'.raised = "") =>
       LET c == error_code_count
           n == answer'.arg_int
       IN
       /\ answer'.val_codes = {k \in (-MaxCodes)..MaxCodes : c <= k /\ k < c + n}
       /\ error_code_count' = c + n
       /\ answer'.val_codes \cap allocated = {}]_vars


\* ---------------------------------------------------------------------
\* gui.py: the handlers of the Run, Continue and Restart buttons and of the
\* monitors checklist.  Devices, Network and Monitors are used through
\* their calls only: execute_network answers True or False as it likes.
\* ---------------------------------------------------------------------

\* The spin control is read with values 0..MaxCycles.
MaxCycles == 2

\* The handlers stop counting at MaxTotal cycles and samples.
MaxTotal == 5

ExecTrue == "execute_network: True"
ExecFalse == "execute_network: False"
RecordSignals == "record_signals"
PrintOscillating == "print: Error! Network oscillating."
ResetMonitors == "reset_monitors"
ColdStartup == "cold_startup"
ZeroCycles == "cycles_completed = 0"

\* What one call does to the monitors' records and to the devices.
Effect(st, call) ==
  IF call = ResetMonitors
  THEN [st EXCEPT !.records =
          [s \in Signals |-> IF st.records[s] = NoneV THEN NoneV ELSE 0]]
  ELSE IF call = RecordSignals
  THEN [st EXCEPT !.records =
          [s \in Signals |-> IF st.records[s] = NoneV THEN NoneV
                             ELSE st.records[s] + 1]]
  ELSE IF call = ColdStartup THEN [st EXCEPT !.devices = "cold"]
  ELSE IF call \in {ExecTrue, ExecFalse} THEN [st EXCEPT !.devices = "run"]
  ELSE st

RECURSIVE Effects(_, _)
Effects(st, log) ==
  IF log = <<>> THEN st ELSE Effects(Effect(st, Head(log)), Tail(log))

\* A run_network that records the signals of an oscillating cycle too and
\* goes on with the next cycle.
RECURSIVE RunNetworkIgnoringOscillation(_, _)
RunNetworkIgnoringOscillation(cycles, good) ==
  IF cycles = 0
  THEN [log |-> <<"canvas.render", "display_signals">>, ok |-> TRUE]
  ELSE LET rest == RunNetworkIgnoringOscillation(cycles - 1, good - 1) IN
       IF good > 0
       THEN [log |-> <<ExecTrue, RecordSignals>> \o rest.log, ok |-> rest.ok]
       ELSE [log |-> <<ExecFalse, RecordSignals>> \o rest.log, ok |-> rest.ok]

\* Gui.run_network(cycles), lines 532-550, when the first `good` calls of
\* execute_network answer True and the next one, if there is one, False:
\* the calls made, and the value returned.
RECURSIVE RunNetwork(_, _)
RunNetwork(cycles, good) ==
  IF cycles = 0
  THEN [log |-> <<"canvas.render", "display_signals">>, ok |-> TRUE]
  ELSE IF good > 0
  THEN LET rest == RunNetwork(cycles - 1, good - 1) IN
       [log |-> <<ExecTrue, RecordSignals>> \o rest.log, ok |-> rest.ok]
  ELSE [log |-> <<ExecFalse, PrintOscillating>>, ok |-> FALSE]

\* A Run handler that starts the devices only after the cycles.
OnRunColdStartLast(cycles, good) ==
  LET r == RunNetwork(cycles, good) IN
  [log |-> <<ZeroCycles, ResetMonitors>> \o r.log \o <<ColdStartup>>,
   ok |-> r.ok]

\* Gui.on_run_button, lines 556-566: what it does before the counter is
\* updated.
OnRun(cycles, good) ==
  LET r == RunNetwork(cycles, good) IN
  [log |-> <<ZeroCycles, ResetMonitors, ColdStartup>> \o r.log, ok |-> r.ok]

GuiState == [records |-> records, devices |-> devices]

on_run_button ==
  /\ devices # "none"
  /\ \E cycles \in 0..MaxCycles : \E good \in 0..cycles :
       LET r == OnRun(cycles, good)
           st == Effects(GuiState, r.log)
       IN
       /\ cycles_completed' = IF r.ok THEN cycles ELSE 0
       /\ records' = st.records
       /\ devices' = st.devices
       /\ calls' = [NoCalls EXCEPT !.handler = "on_run_button",
                                   !.cycles = cycles, !.log = r.log]
  /\ continue_button' = TRUE
  /\ monitors_checklistbox' = FALSE
  /\ UNCHANGED <<pvars, cvars, mvars, filelines, current_char, current_line_num,
                 current_col_num, sc_pc, sym, disk, tokens,
                 name_string_list, name_id_list>>

\* Gui.on_continue_button, lines 570-582; the button answers only while it
\* is enabled.
on_continue_button ==
  /\ devices # "none"
  /\ continue_button
  /\ \E cycles \in 0..MaxCycles : \E good \in 0..cycles :
       LET r == RunNetwork(cycles, good)
           st == Effects(GuiState, r.log)
       IN
       /\ cycles_completed + cycles <= MaxTotal
       /\ \A s \in Signals : st.records[s] <= MaxTotal
       /\ cycles_completed' =
            IF r.ok THEN cycles_completed + cycles ELSE cycles_completed
       /\ records' = st.records
       /\ devices' = st.devices
       /\ calls' = [NoCalls EXCEPT !.handler = "on_continue_button",
                                   !.cycles = cycles, !.log = r.log]
  /\ monitors_checklistbox' = FALSE
  /\ UNCHANGED continue_button
  /\ UNCHANGED <<pvars, cvars, mvars, filelines, current_char, current_line_num,
                 current_col_num, sc_pc, sym, disk, tokens,
                 name_string_list, name_id_list>>

\* Gui.on_restart_button, lines 584-595
OnRestart == <<ResetMonitors, ZeroCycles>>

\* A Restart handler that leaves the Continue button as it is.
on_restart_button_keeping_continue ==
  /\ devices # "none"
  /\ LET st == Effects(GuiState, OnRestart) IN
     /\ records' = st.records
     /\ devices' = st.devices
  /\ cycles_completed' = 0
  /\ monitors_checklistbox' = TRUE
  /\ UNCHANGED continue_button
  /\ calls' = [NoCalls EXCEPT !.handler = "on_restart_button",
                              !.log = OnRestart]
  /\ UNCHANGED <<pvars, cvars, mvars, filelines, current_char, current_line_num,
                 current_col_num, sc_pc, sym, disk, tokens,
                 name_string_list, name_id_list>>

on_restart_button ==
  /\ devices # "none"
  /\ LET st == Effects(GuiState, OnRestart) IN
     /\ records' = st.records
     /\ devices' = st.devices
  /\ cycles_completed' = 0
  /\ monitors_checklistbox' = TRUE
  /\ continue_button' = FALSE
  /\ calls' = [NoCalls EXCEPT !.handler = "on_restart_button",
                              !.log = OnRestart]
  /\ UNCHANGED <<pvars, cvars, mvars, filelines, current_char, current_line_num,
                 current_col_num, sc_pc, sym, disk, tokens,
                 name_string_list, name_id_list>>

\* Gui.OnChecklist, lines 501-520, on a click on the item of one signal
\* while the checklist is enabled: after the two queries the test
\* 'clicked.IsChecked(index)' reads the name index, which nothing defines.
OnChecklist ==
  /\ devices # "none"
  /\ monitors_checklistbox
  /\ \E signal \in Signals :
       calls' = [NoCalls EXCEPT !.handler = "OnChecklist",
                                !.signal = signal,
                                !.log = <<"names.query", "names.query">>,
                                !.raised = "NameError"]
  /\ UNCHANGED <<cycles_completed, continue_button, monitors_checklistbox,
                 records, devices>>
  /\ UNCHANGED <<pvars, cvars, mvars, filelines, current_char, current_line_num,
                 current_col_num, sc_pc, sym, disk, tokens,
                 name_string_list, name_id_list>>

\* Gui.__init__, lines 372-486, has returned: no cycle run yet, Continue
\* disabled, the checklist enabled, and the signals either all monitored
\* or all not.
InitGui ==
  /\ names = ParserInitNames
  /\ ParserInit
  /\ ScannerInit
  /\ CodesInit
  /\ filelines = <<>>
  /\ disk = NoFile
  /\ sc_pc = "no_scanner"
  /\ cycles_completed = 0
  /\ continue_button = FALSE
  /\ monitors_checklistbox = TRUE
  /\ \E m \in {NoneV, 0} : records = [s \in Signals |-> m]
  /\ devices = "cold"
  /\ calls = NoCalls
  /\ Bounded

NextGui ==
  \/ on_run_button
  \/ on_continue_button
  \/ on_restart_button
  \/ OnChecklist

SpecGui == InitGui /\ [][NextGui]_vars


\* The positions of the log at which execute_network is called.
Executes(log) == {i \in DOMAIN log : log[i] \in {ExecTrue, ExecFalse}}

\* How often the log calls record_signals.
Recorded(log) == Cardinality({i \in DOMAIN log : log[i] = RecordSignals})

\* C26: the Run handler sets the counter to zero and resets the monitors,
\* then cold-starts the devices, and does each of them once and before any
\* cycle; every cycle is one call of execute_network, followed by
\* record_signals when it succeeds; there are exactly N cycles when none
\* oscillates, and an oscillating cycle is the last one.
C26_RunOrder ==
  [][calls'.handler = "on_run_button" =>
       LET log == calls'.log
           N == calls'.cycles
           ex == Executes(log)
       IN
       /\ Len(log) >= 3
       /\ {log[1], log[2]} = {ZeroCycles, ResetMonitors}
       /\ log[3] = ColdStartup
       /\ \A i \in 4..Len(log) :
            log[i] \notin {ZeroCycles, ResetMonitors, ColdStartup}
       /\ \A i \in ex : log[i] = ExecTrue =>
            i < Len(log) /\ log[i + 1] = RecordSignals
       /\ Cardinality(ex) <= N
       /\ (\A i \in ex : log[i] = ExecTrue) => Cardinality(ex) = N
       /\ \A i \in ex : log[i] = ExecFalse => \A j \in ex : j <= i
       /\ \A s \in Signals :
            records[s] # NoneV => records'[s] = Recorded(log)
       /\ devices' = IF ex = {} THEN "cold" ELSE "run"]_vars

\* Run was pressed for two cycles and the second one oscillated.
C26_Witness_SecondCycleOscillates ==
  /\ calls.handler = "on_run_button"
  /\ calls.cycles = 2
  /\ Len(calls.log) = 7
  /\ calls.log[4] = ExecTrue
  /\ calls.log[6] = ExecFalse
  /\ \A s \in Signals : records[s] = 1

\* C27: in every handler record_signals is called right after each call of
\* execute_network that answers True and nowhere else; after a call that
\* answers False the handler prints 'Error! Network oscillating.' and
\* calls nothing more, so the records grow by one sample per successful
\* cycle only.
C27_RecordAfterSuccessOnly ==
  [][LET log == calls'.log
         base(s) == IF \E i \in DOMAIN log : log[i] = ResetMonitors
                    THEN 0 ELSE records[s]
     IN
     /\ \A i \in DOMAIN log :
          /\ log[i] = ExecTrue => i < Len(log) /\ log[i + 1] = RecordSignals
          /\ log[i] = RecordSignals => i > 1 /\ log[i - 1] = ExecTrue
          /\ log[i] = ExecFalse =>
               /\ i + 1 = Len(log)
               /\ log[i + 1] = PrintOscillating
          /\ log[i] = PrintOscillating => i > 1 /\ log[i - 1] = ExecFalse
     /\ \A s \in Signals :
          records[s] # NoneV =>
            records'[s] = base(s) +
              Cardinality({i \in DOMAIN log : log[i] = ExecTrue})]_vars

\* Continue was pressed after a run and its first cycle oscillated: nothing
\* was recorded.
C27_Witness_ContinueOscillates ==
  /\ calls.handler = "on_continue_button"
  /\ calls.cycles = 2
  /\ calls.log = <<ExecFalse, PrintOscillating>>
  /\ \A s \in Signals : records[s] = 2
  /\ cycles_completed = 2


\* C28: whatever handlers have run, the record of every monitor holds
\* cycles_completed samples.
C28_CounterMatchesRecords ==
  devices # "none" =>
    \A s \in Signals : records[s] # NoneV => records[s] = cycles_completed

\* C29: the Restart handler puts the devices in their cold-startup state,
\* empties every monitor's record and sets the counter to zero.
C29_RestartResetsDevices ==
  [][calls'.handler = "on_restart_button" =>
       /\ devices' = "cold"
       /\ \A s \in Signals : records[s] # NoneV => records'[s] = 0
       /\ cycles_completed' = 0]_vars

\* C30: a click on a signal of the checklist that is not monitored makes a
\* monitor whose record starts with cycles_completed blank samples, and a
\* click on a monitored signal removes its monitor.
C30_ToggleMonitor ==
  [][calls'.handler = "OnChecklist" =>
       LET s == calls'.signal IN
       /\ records[s] = NoneV => records'[s] = cycles_completed
       /\ records[s] # NoneV => records'[s] = NoneV]_vars


\* C38: a lookup call that raises TypeError for an element that is not a
\* string leaves the names table exactly as it was before the call.
C38_TypeErrorLeavesTable ==
  [][(answer'.op = "lookup" /\ answer'.raised = "TypeError") =>
       names' = names]_vars


RunOrContinue == {"on_run_button", "on_continue_button"}

\* C37: the Continue button is disabled until the first run and after every
\* restart, and enabled only when the latest handler was Run or Continue;
\* so every Continue follows a Run, or a Continue that followed one, with
\* no Restart in between, and the devices it executes were cold-started by
\* that run.
C37_ContinueOnlyAfterRun ==
  [][/\ calls.handler = "none" => ~ continue_button
     /\ calls'.handler = "on_restart_button" => ~ continue_button'
     /\ continue_button' => calls'.handler \in RunOrContinue
     /\ calls'.handler = "on_continue_button" =>
          continue_button /\ calls.handler \in RunOrContinue]_vars

\* Continue was pressed after a run of two cycles and executed one more.
C37_Witness_ContinueAfterRun ==
  /\ calls.handler = "on_continue_button"
  /\ calls.cycles = 1
  /\ cycles_completed = 3
  /\ continue_button


\* C33: parse_network returns True exactly when it returns with no error
\* counted; it has printed nothing when it returns True, and at least one
\* diagnostic when it returns False or the process has exited.
C33_TrueIffNoErrorCounted ==
  /\ pc = "done" => result \in {"True", "False"}
  /\ (pc = "done" /\ result = "True") => err_cnt = 0 /\ printed = 0
  /\ (pc = "done" /\ result = "False") => err_cnt > 0 /\ printed > 0
  /\ pc = "exited" => err_cnt > 0 /\ printed > 0


\* An error was counted in a section, END and EOF were found, check_network
\* answered True, and parse_network returned False.
C33_Witness_FalseAfterSectionError ==
  /\ pc = "done" /\ result = "False"
  /\ err_cnt = 1 /\ printed = 1
  /\ check_err = 1 /\ loc.network_ok


\* ---------------------------------------------------------------------
\* The parser from the CONNECT section on: parse_network has parsed an
\* empty DEVICE section ("DEVICE CONNECT") and calls _parse_connect_list
\* with CONNECT as the current symbol.  The tokens DEVICE and CONNECT are
\* not counted in ntoks, so that MaxToks more tokens can follow.
\* ---------------------------------------------------------------------
InitConnect ==
  /\ names = ParserInitNames
  /\ pc = "parse_connect_list"
  /\ stack = <<"parse_network_connects">>
  /\ cur = ScanLexeme(KW_CONNECT, ParserInitNames).sym
  /\ ntoks = 0
  /\ err_cnt = 0
  /\ printed = 0
  /\ last_err = NO_ERROR
  /\ last_msg = NoMsg
  /\ exit_code = NoneV
  /\ de_stop = NoStop
  /\ loc = LocInit
  /\ result = "none"
  /\ gram = GramStep(GramStep("start", ScanLexeme(KW_DEVICE, ParserInitNames).sym),
                     ScanLexeme(KW_CONNECT, ParserInitNames).sym)
  /\ sem_failed = FALSE
  /\ built = FALSE
  /\ build_err = 0
  /\ check_err = NoneV
  /\ ScannerInit
  /\ CodesInit
  /\ NoGui
  /\ Bounded
  /\ filelines = <<>>
  /\ disk = NoFile
  /\ sc_pc = "idle"

NextConnect ==
  \/ parse_device_name_get
  \/ parse_device_name
  \/ parse_device_name_fail
  \/ parse_connect_list
  \/ parse_connect_list_loop
  \/ parse_connect_list_status
  \/ parse_connect_list_make
  \/ parse_connect_list_advance
  \/ parse_connect_list_end
  \/ parse_connection
  \/ parse_connection_output
  \/ parse_connection_input
  \/ parse_connection_loop
  \/ parse_connection_semi
  \/ parse_connection_fail
  \/ parse_output
  \/ parse_output_named
  \/ parse_output_port
  \/ parse_output_last
  \/ parse_output_fail
  \/ parse_input
  \/ parse_input_named
  \/ parse_input_port
  \/ parse_input_fail
  \/ parse_network_connects
  \/ parse_monitor_list
  \/ parse_monitor_list_status
  \/ parse_monitor_list_make
  \/ parse_monitor_list_loop
  \/ parse_monitor_list_end
  \/ parse_network_monitors
  \/ parse_network_eof
  \/ parse_network_fail
  \/ parse_network_check
  \/ parse_network_return
  \/ display_error_skip

SpecConnect == InitConnect /\ [][NextConnect]_vars

\* C35: when a device definition has been parsed with no error counted,
\* make_device is called once for every device the statement names, in the
\* order of the statement, with the statement's kind and the parameter
\* written with that name; a name the statement holds twice is passed
\* twice.
C35_MakeDevicePerOccurrence ==
  [][/\ (pc = "parse_device_list_status" /\ pc' = "parse_device_list_make") =>
          loc'.pending = [i \in 1..Len(loc.written) |->
                            <<loc.written[i][1], loc.ra, loc.written[i][2]>>]
     /\ (pc = "parse_device_list_make" /\ loc.pending # <<>>) =>
          built' /\ loc'.pending = Tail(loc.pending)]_vars

\* C36: when a connection has been parsed with no error counted,
\* make_connection is called once for every input the statement names, in
\* the order of the statement, with the statement's output device and port
\* and that input's device and port.
C36_MakeConnectionPerInput ==
  [][/\ (pc = "parse_connect_list_status" /\ pc' = "parse_connect_list_make") =>
          loc'.pending = [i \in 1..Len(loc.written) |->
                            <<loc.ra, loc.rb,
                              loc.written[i][1], loc.written[i][2]>>]
     /\ (pc = "parse_connect_list_make" /\ loc.pending # <<>>) =>
          built' /\ loc'.pending = Tail(loc.pending)]_vars

\* A connection with the same input written twice has been parsed and the
\* second of its two make_connection calls is about to be made, for an
\* output without a port.
C36_Witness_SameInputTwice ==
  /\ pc = "parse_connect_list_make"
  /\ Len(loc.pending) = 1
  /\ loc.pending[1][2] = NoneV
  /\ built /\ err_cnt = 0
  /\ Len(names) = 6




\* ------------------------------------------------------------ termination
\* Parser runs followed to their end: the file holds at most LiveToks tokens
\* before its EOF, and LiveErrs is more than the errors such a file can have
\* counted (C34 checks that it is), so that no run is cut short.
LiveToks == 8
LiveErrs == 20

InitLive ==
  /\ names = ParserInitNames
  /\ ParserInit
  /\ ScannerInit
  /\ CodesInit
  /\ NoGui
  /\ bound = [toks |-> LiveToks, errs |-> LiveErrs]
  /\ main = [MainStart(<<>>) EXCEPT !.pc = "idle"]
  /\ filelines = <<>>
  /\ disk = NoFile
  /\ sc_pc = "idle"

\* parse_network is sequential code that waits for nothing: while a
\* statement is left to run, it runs.
SpecLive == InitLive /\ [][Next]_vars /\ WF_vars(Next)

\* The step has called get_symbol: a token was consumed, or the file is at
\* its end.
Fetched == ntoks' = ntoks + 1 \/ cur'.symtype = "EOF"

SectionLoops == {"parse_device_list_loop", "parse_connect_list_loop"}
SectionEnds == {"parse_device_list_end", "parse_connect_list_end"}

\* One step of the parser, seen from its loops.
LoopsAdvance ==
  \* tokens are consumed, never given back, and nothing follows EOF
  /\ ntoks' >= ntoks
  /\ cur.symtype = "EOF" => cur'.symtype = "EOF" /\ ntoks' = ntoks
  \* lines 135-149 and 301-315: the loop test is reached by a get_symbol,
  \* the one before the loop or the one that ends an iteration
  /\ pc' \in SectionLoops => Fetched
  /\ pc \in SectionLoops /\ cur.symtype = "EOF" => pc' \in SectionEnds
  \* lines 470-480: an iteration starts with a get_symbol
  /\ pc = "parse_monitor_list_loop" =>
       IF cur.symtype = "COMMA" THEN Fetched /\ pc' = "parse_output"
       ELSE pc' = "parse_monitor_list_end"
  \* lines 574-576: an iteration is a get_symbol, and there is none at EOF
  /\ pc = "display_error_skip" /\ pc' = "display_error_skip" =>
       cur.symtype # "EOF" /\ Fetched
  /\ pc = "display_error_skip" /\ cur.symtype = "EOF" => pc' # "display_error_skip"

\* The characters the scanner has taken from the file with its cursor at c:
\* the lines before the cursor's, the columns of its line, and one more
\* once the end of the file was found.
RECURSIVE LinesLen(_, _)
LinesLen(fl, n) == IF n = 0 THEN 0 ELSE Len(fl[n]) + LinesLen(fl, n - 1)
Consumed(fl, c) ==
  LinesLen(fl, c.line) + c.col + (IF c.ch = "" /\ c.col > 0 THEN 1 ELSE 0)

\* The scanner's side of termination, for SpecScan and SpecScanWords: the
\* skip of get_symbol never moves the cursor back, and the symbol it then
\* returns has taken at least one character unless it is EOF, which moves
\* nothing; after EOF every symbol is EOF.
GetSymbolConsumes ==
  [][/\ sc_pc = "get_symbol" =>
          Consumed(filelines, Here') >= Consumed(filelines, Here)
     /\ sc_pc = "get_symbol_dispatch" =>
          /\ sym'.symtype # "EOF" =>
                Consumed(filelines, Here') > Consumed(filelines, Here)
          /\ sym'.symtype = "EOF" => Here' = Here
          /\ (tokens # <<>> /\ tokens[Len(tokens)].symtype = "EOF") =>
                sym'.symtype = "EOF"]_vars

\* C34: for every finite file parse_network comes to its end, by returning
\* or by exiting the process, whatever the number of errors; on the way the
\* section loops, the monitor loop and the recovery skip of display_error
\* consume a token in every iteration and are left at EOF.
C34_ParseNetworkTerminates ==
  /\ <>(pc \in {"done", "exited"})
  /\ [](err_cnt < LiveErrs)
  /\ [][LoopsAdvance]_vars

\* A run that has returned after three recoveries, the file read to its
\* last token.
C34_Witness_ReturnedAfterRecoveries ==
  /\ pc = "done"
  /\ result = "False"
  /\ err_cnt = 3
  /\ ntoks = LiveToks
  /\ cur.symtype = "EOF"


\* ------------------------------------------------------------ logsim.py
\* main is called with at most MaxArgs command line words, and its reload
\* loop is followed for MaxReloads iterations.
MaxArgs == 2
MaxReloads == 2

\* Command line words: the options of "hc:", an option that is none, the
\* end-of-options mark and a file path.
ArgWords == {"-h", "-c", "-x", "--", "f"}
ArgLists == UNION {[1..n -> ArgWords] : n \in 0..MaxArgs}

Option(o, p) == [option |-> o, path |-> p]

\* getopt.getopt(arg_list, "hc:"): options are read up to the first word
\* that is none, -c takes the next word as its value whatever it is, and an
\* unknown option or a -c without value raises GetoptError.
RECURSIVE Getopt(_, _)
Getopt(opts, args) ==
  IF args = <<>> \/ Head(args) = "f"
  THEN [ok |-> TRUE, options |-> opts, arguments |-> args]
  ELSE IF Head(args) = "--"
  THEN [ok |-> TRUE, options |-> opts, arguments |-> Tail(args)]
  ELSE IF Head(args) = "-h"
  THEN Getopt(Append(opts, Option("-h", "")), Tail(args))
  ELSE IF Head(args) = "-c" /\ Len(args) >= 2
  THEN Getopt(Append(opts, Option("-c", args[2])), SubSeq(args, 3, Len(args)))
  ELSE [ok |-> FALSE, options |-> <<>>, arguments |-> <<>>]

\* What main prints (lines 34-37, 41, 66) and what the command line
\* interface stands for in the output.
Usage == "Usage:"
InvalidArguments == "Error: invalid command line arguments"
OnePathRequired == "Error: one file path required"
CommandInterface == "command_interface"

\* sys.exit() with no argument: the process ends with status 0.
SysExit(m) == [m EXCEPT !.pc = "exited", !.status = 0]
\* sys.exit(1) in Scanner.__init__ and in Parser.display_error
SysExit1(m) == [m EXCEPT !.pc = "exited", !.status = 1]
\* an exception nobody catches: traceback, status 1
Uncaught(m, e) == [m EXCEPT !.pc = "exited", !.status = 1, !.raised = e]
\* main returns: the script ends with status 0
MainReturns(m) == [m EXCEPT !.pc = "returned", !.status = 0]

\* Names(), Devices(names), Network(names, devices), Monitors(names,
\* devices, network): the three built on the names object they are given.
SimulatorObjects(m, s, names_obj) ==
  [m EXCEPT !.session = s,
            !.names = names_obj,
            !.devices = Obj(s, names_obj.born, 0, 0, 0, 0),
            !.network = Obj(s, names_obj.born, s, 0, 0, 0),
            !.monitors = Obj(s, names_obj.born, s, s, 0, 0)]

\* lines 46-49
Initialise(m) == SimulatorObjects(m, 1, Obj(1, 0, 0, 0, 0, 0))

\* A re-initialisation that goes on with the names table it has.
ReinitialiseKeepingNames(m) == SimulatorObjects(m, m.session + 1, m.names)

\* lines 88-91: "Re-initialise everything"
Reinitialise(m) ==
  SimulatorObjects(m, m.session + 1, Obj(m.session + 1, 0, 0, 0, 0, 0))

\* What Scanner(path, names), Parser(...) and parse_network() can come to:
\* the file cannot be opened (exit(1)), a keyword is missing (exit(1)), or
\* parse_network returns.
ParseOutcomes == {"open_failed", "exit", "True", "False"}

\* Scanner(path, names); Parser(names, devices, network, monitors, scanner);
\* parser.parse_network(): the objects the parser was given hold the data of
\* this session's file afterwards.
ParseFile(m, outcome) ==
  IF outcome = "open_failed" THEN SysExit1([m EXCEPT !.parsed = outcome])
  ELSE LET s == m.session
           fill(o) == [o EXCEPT !.holds = @ \cup {s}]
           p == [m EXCEPT !.scanner = Obj(s, m.names.born, 0, 0, 0, 0),
                          !.parser = Obj(s, m.names.born, m.devices.born,
                                         m.network.born, m.monitors.born, s),
                          !.names = fill(m.names),
                          !.devices = fill(m.devices),
                          !.network = fill(m.network),
                          !.monitors = fill(m.monitors),
                          !.parsed = outcome]
       IN IF outcome = "exit" THEN SysExit1(p) ELSE p

\* wx.App(); Gui(title, path, names, devices, network, monitors);
\* gui.Show(True); app.MainLoop(): the Gui has been closed, with the
\* edit_restart attribute set by open_circuit_file_in_editor or without it.
RunGui(m, edit_restart) ==
  [m EXCEPT !.gui = [Obj(m.session, m.names.born, m.devices.born,
                         m.network.born, m.monitors.born, 0)
                     EXCEPT !.edit_restart = edit_restart],
            !.pc = "gui_closed"]

OnlyMain ==
  UNCHANGED <<pvars, filelines, current_char, current_line_num,
              current_col_num, sc_pc, sym, disk, tokens, name_string_list,
              name_id_list, cvars, gvars, bound>>

\* lines 38-49: the command line is read and the simulator objects made
main_getopt ==
  /\ main.pc = "main"
  /\ LET r == Getopt(<<>>, main.arg_list) IN
     main' = IF ~ r.ok
             THEN SysExit([main EXCEPT !.out = <<InvalidArguments, Usage>>])
             ELSE [Initialise(main) EXCEPT
                     !.options = r.options, !.arguments = r.arguments,
                     !.pc = IF r.options = <<>> THEN "no_options" ELSE "options"]
  /\ OnlyMain

\* lines 51-61: one iteration of the loop over the options
main_option ==
  /\ main.pc = "options"
  /\ LET o == main.options[main.oi]
         next(m) == IF m.oi = Len(m.options) THEN MainReturns(m)
                    ELSE [m EXCEPT !.oi = @ + 1]
     IN IF o.option = "-h"
        THEN main' = SysExit([main EXCEPT !.out = Append(@, Usage)])
        ELSE \E outcome \in ParseOutcomes :
               LET p == ParseFile(main, outcome) IN
               main' = IF outcome \in {"open_failed", "exit"} THEN p
                       ELSE IF outcome = "True"
                       THEN next([p EXCEPT !.out = Append(@, CommandInterface)])
                       ELSE next(p)
  /\ OnlyMain

\* lines 63-79: no option, the graphical user interface
main_gui ==
  /\ main.pc = "no_options"
  /\ IF Len(main.arguments) # 1
     THEN main' = SysExit([main EXCEPT !.out = <<OnePathRequired, Usage>>])
     ELSE \E outcome \in ParseOutcomes, edit_restart \in BOOLEAN :
            LET p == ParseFile(main, outcome) IN
            main' = IF outcome \in {"open_failed", "exit"} THEN p
                    ELSE IF outcome = "True" THEN RunGui(p, edit_restart)
                    ELSE MainReturns(p)
  /\ OnlyMain

\* What run_editor(path) can come to (lines 106-166): an editor was run; the
\* user typed "exit" or closed the input; find_editor raised NameError, as
\* it does at line 158 whenever EDITOR is in the environment.
EditorOutcomes == {"edited", "exit", "NameError"}

\* lines 81-103: one iteration of the reload loop
main_reload ==
  /\ main.pc = "gui_closed"
  /\ main.gui.edit_restart
  /\ main.session <= MaxReloads
  /\ \E editor \in EditorOutcomes, outcome \in ParseOutcomes,
        edit_restart \in BOOLEAN :
       main' = IF editor = "exit" THEN SysExit(main)
               ELSE IF editor = "NameError" THEN Uncaught(main, "NameError")
               ELSE LET p == ParseFile(Reinitialise(main), outcome) IN
                    IF outcome \in {"open_failed", "exit"} THEN p
                    ELSE IF outcome = "True" THEN RunGui(p, edit_restart)
                    ELSE MainReturns(p)
  /\ OnlyMain

\* line 81: the Gui was closed without the flag, the loop is not entered or
\* is left
main_return ==
  /\ main.pc = "gui_closed"
  /\ ~ main.gui.edit_restart
  /\ main' = MainReturns(main)
  /\ OnlyMain

InitMain ==
  /\ names = NamesInit
  /\ ParserInit
  /\ ScannerInit
  /\ CodesInit
  /\ NoGui
  /\ bound = [toks |-> MaxToks, errs |-> MaxErrs]
  /\ filelines = <<>>
  /\ disk = NoFile
  /\ sc_pc = "no_scanner"
  /\ \E arg_list \in ArgLists : main = MainStart(arg_list)

NextMain ==
  \/ main_getopt
  \/ main_option
  \/ main_gui
  \/ main_reload
  \/ main_return

SpecMain == InitMain /\ [][NextMain]_vars


\* The command line is not one main accepts: an option that is none or a -c
\* without value, or no option and not exactly one argument.
InvalidInvocation(arg_list) ==
  LET r == Getopt(<<>>, arg_list) IN
  ~ r.ok \/ (r.options = <<>> /\ Len(r.arguments) # 1)

\* The first option of an accepted command line is -h.
HelpInvocation(arg_list) ==
  LET r == Getopt(<<>>, arg_list) IN
  r.ok /\ r.options # <<>> /\ r.options[1].option = "-h"

Printed(text) == \E i \in DOMAIN main.out : main.out[i] = text

\* C31: when main has ended on a command line with an invalid option, or
\* with no option and a number of arguments other than one, it has printed
\* the usage message and the exit status is not 0; when it has ended on -h
\* it has printed the usage message and the exit status is 0.
C31_UsageAndExitStatus ==
  main.pc \in {"exited", "returned"} =>
    /\ InvalidInvocation(main.arg_list) => Printed(Usage) /\ main.status # 0
    /\ HelpInvocation(main.arg_list) => main.out = <<Usage>> /\ main.status = 0

\* Every object of main was created in the session main is in, was built
\* on the objects of that session, and holds no data but that session's.
FreshSession(m) ==
  LET s == m.session IN
  /\ \A o \in {m.names, m.devices, m.network, m.monitors, m.scanner, m.parser} :
       o.born = s
  /\ \A o \in {m.devices, m.network, m.monitors, m.scanner, m.parser} :
       o.names = s
  /\ \A o \in {m.network, m.monitors, m.parser} : o.devices = s
  /\ \A o \in {m.monitors, m.parser} : o.network = s
  /\ m.parser.monitors = s /\ m.parser.scanner = s
  /\ \A o \in {m.names, m.devices, m.network, m.monitors} : o.holds = {s}

\* The Gui shows the objects of the session main is in.
GuiOfSession(m) ==
  /\ m.gui.born = m.session
  /\ m.gui.names = m.session /\ m.gui.devices = m.session
  /\ m.gui.network = m.session /\ m.gui.monitors = m.session

\* C32: a step that parses the file again after a Gui was closed with
\* edit_restart set leaves names, devices, network, monitors, scanner and
\* parser all created anew, built on each other and holding nothing of an
\* earlier session, and the Gui it opens shows those; the loop goes on only
\* after a re-parse that returned True, ends when it returned False, and
\* ends without another parse when the Gui closed without the flag.
C32_ReloadStartsAnew ==
  [][/\ (main.pc = "gui_closed" /\ main.gui.edit_restart
          /\ main'.parsed \in {"True", "False", "exit"}
          /\ main'.raised = "" /\ main'.session # main.session) =>
          /\ main'.session = main.session + 1
          /\ FreshSession(main')
          /\ main'.parsed = "True" => main'.pc = "gui_closed" /\ GuiOfSession(main')
          /\ main'.parsed = "False" => main'.pc = "returned"
     /\ (main.pc = "gui_closed" /\ main'.pc = "gui_closed") =>
          main.gui.edit_restart /\ main'.parsed = "True"
            /\ main'.session = main.session + 1
     /\ (main.pc = "gui_closed" /\ ~ main.gui.edit_restart) =>
          /\ main'.pc = "returned"
          /\ main'.session = main.session /\ main'.parser = main.parser]_vars

\* Two reloads, the second of them with a file that does not parse.
C32_Witness_SecondReloadFails ==
  /\ main.pc = "returned"
  /\ main.session = 3
  /\ main.parsed = "False"
  /\ main.gui.born = 2
  /\ FreshSession(main)

====
